---- MODULE Spec2Model ----
(***************************************************************************)
(* A model of parseLLMJson (src/src/utils/jsonParser.ts): the input        *)
(* normaliser, the Boundary Scanner, the Repair Engine, the Candidate      *)
(* Extractor, the Parse Pipeline, the Result Unwrapper and the             *)
(* orchestrator that sequences them.                                       *)
(*                                                                         *)
(* A JavaScript string is a sequence of one-character strings.  The        *)
(* characters U+FEFF, U+00A0, U+2026, U+2028 and U+2029 are written        *)
(* "<BOM>", "<NBSP>", "<ELLIPSIS>", "<LS>" and "<PS>", the backtick        *)
(* "<BACKTICK>", and the vertical tab and backspace "<VT>" and "<BS>".     *)
(***************************************************************************)
EXTENDS Integers, Sequences, FiniteSets, TLC

(***************************************************************************)
(* Characters and character classes of the regular expressions.            *)
(***************************************************************************)
BOM == "<BOM>"

NBSP == "<NBSP>"

ELLIPSIS == "<ELLIPSIS>"

\* the backtick (U+0060)
BACKTICK == "<BACKTICK>"

LowerLetters ==
    {"a","b","c","d","e","f","g","h","i","j","k","l","m",
     "n","o","p","q","r","s","t","u","v","w","x","y","z"}

UpperLetters ==
    {"A","B","C","D","E","F","G","H","I","J","K","L","M",
     "N","O","P","Q","R","S","T","U","V","W","X","Y","Z"}

Digits == {"0","1","2","3","4","5","6","7","8","9"}

HexDigits == Digits \cup {"a","b","c","d","e","f","A","B","C","D","E","F"}

\* \w of a JavaScript regular expression
WordChars == LowerLetters \cup UpperLetters \cup Digits \cup {"_"}

\* the line terminators: what . does not match, and where $ and ^ match under /m
LineTerminators == {"\n", "\r", "<LS>", "<PS>"}

\* \s of a JavaScript regular expression, and what String.prototype.trim strips
WhiteSpace == {" ", "\t", "\n", "\r", "\f", "<VT>", NBSP, BOM, "<LS>", "<PS>"}

\* the whitespace JSON.parse accepts between tokens
JsonWhiteSpace == {" ", "\t", "\n", "\r"}

\* characters JSON.parse rejects when they appear raw inside a string literal
ControlChars == {"\t", "\n", "\r", "\f", "<VT>", "<BS>"}

UpperSeq ==
    <<"A","B","C","D","E","F","G","H","I","J","K","L","M",
      "N","O","P","Q","R","S","T","U","V","W","X","Y","Z">>

LowerSeq ==
    <<"a","b","c","d","e","f","g","h","i","j","k","l","m",
      "n","o","p","q","r","s","t","u","v","w","x","y","z">>

\* the lower-case form of a character (the /i flag of the literal rewrites)
ToLower(c) ==
    IF c \in UpperLetters
    THEN LowerSeq[CHOOSE k \in 1..26 : UpperSeq[k] = c]
    ELSE c

(***************************************************************************)
(* String helpers (String.prototype.substring, startsWith, trim).          *)
(***************************************************************************)
\* s.substring(i-1, j) in JavaScript's 0-based terms: positions i..j, 1-based
Sub(s, i, j) == IF i > j THEN <<>> ELSE SubSeq(s, i, j)

\* the text from position i to the end
From(s, i) == Sub(s, i, Len(s))

\* does the literal w occur in s at position i
At(s, i, w) ==
    /\ i >= 1
    /\ i + Len(w) - 1 <= Len(s)
    /\ \A k \in 1..Len(w) : s[i + k - 1] = w[k]

\* the first position >= i of s that holds a character outside class, or Len(s)+1
SkipClass(s, i, class) ==
    IF i > Len(s) THEN i
    ELSE CHOOSE k \in i..(Len(s) + 1) :
             /\ k = Len(s) + 1 \/ s[k] \notin class
             /\ \A m \in i..(k - 1) : s[m] \in class

\* the first position >= i of s that holds a character of class, or Len(s)+1
SkipTo(s, i, class) ==
    IF i > Len(s) THEN i
    ELSE CHOOSE k \in i..(Len(s) + 1) :
             /\ k = Len(s) + 1 \/ s[k] \in class
             /\ \A m \in i..(k - 1) : s[m] \notin class

\* the last position <= j of s that holds a character outside class, or 0
SkipClassBack(s, j, class) ==
    IF j < 1 THEN j
    ELSE CHOOSE k \in 0..j :
             /\ k = 0 \/ s[k] \notin class
             /\ \A m \in (k + 1)..j : s[m] \in class

\* the first position >= i at which the literal w occurs, or 0
IndexOf(s, w, i) ==
    IF \E k \in i..Len(s) : At(s, k, w)
    THEN CHOOSE k \in i..Len(s) : At(s, k, w) /\ \A m \in i..(k - 1) : ~At(s, m, w)
    ELSE 0

\* the first position k >= i with f[k] # 0, or 0 : where the next match starts
NextMatch(f, i) ==
    IF \E k \in DOMAIN f : k >= i /\ f[k] # 0
    THEN CHOOSE k \in DOMAIN f :
             /\ k >= i /\ f[k] # 0
             /\ \A m \in DOMAIN f : (m >= i /\ m < k) => f[m] = 0
    ELSE 0

\* String.prototype.trim
Trim(s) == Sub(s, SkipClass(s, 1, WhiteSpace), SkipClassBack(s, Len(s), WhiteSpace))

\* the number of positions of s that hold the character c
CountChar(s, c) == Cardinality({k \in 1..Len(s) : s[k] = c})

(***************************************************************************)
(* JSON values.  A value is a record of one shape, so that any two values  *)
(* can be compared: t is the type, s the characters of a string or the     *)
(* literal of a number or a boolean, keys and kids the members of an       *)
(* object (in insertion order) or the elements of an array.                *)
(***************************************************************************)
JNull == [t |-> "null", s |-> <<>>, keys |-> <<>>, kids |-> <<>>]

JBool(b) == [t |-> "bool", s |-> IF b THEN <<"t">> ELSE <<"f">>, keys |-> <<>>, kids |-> <<>>]

JNum(lit) == [t |-> "num", s |-> lit, keys |-> <<>>, kids |-> <<>>]

JStr(chars) == [t |-> "str", s |-> chars, keys |-> <<>>, kids |-> <<>>]

JArr(elems) == [t |-> "arr", s |-> <<>>, keys |-> <<>>, kids |-> elems]

JObj(ks, vs) == [t |-> "obj", s |-> <<>>, keys |-> ks, kids |-> vs]

\* the position of key k among ks, or 0
RECURSIVE KeyIndex(_, _, _)
KeyIndex(ks, k, i) ==
    IF i > Len(ks) THEN 0
    ELSE IF ks[i] = k THEN i
    ELSE KeyIndex(ks, k, i + 1)

\* obj[k] = v : a repeated key keeps its place and takes the later value
SetMember(o, k, v) ==
    LET i == KeyIndex(o.keys, k, 1)
    IN  IF i = 0 THEN JObj(Append(o.keys, k), Append(o.kids, v))
        ELSE JObj(o.keys, [o.kids EXCEPT ![i] = v])

\* k in obj
HasKey(o, k) == o.t = "obj" /\ KeyIndex(o.keys, k, 1) # 0

\* obj[k], for a key that is present
Member(o, k) == o.kids[KeyIndex(o.keys, k, 1)]

\* is the mantissa of a number literal zero (the number is then falsy)
NumIsZero(lit) ==
    LET e == IF IndexOf(lit, <<"e">>, 1) # 0 THEN IndexOf(lit, <<"e">>, 1)
             ELSE IF IndexOf(lit, <<"E">>, 1) # 0 THEN IndexOf(lit, <<"E">>, 1)
             ELSE Len(lit) + 1
    IN  \A k \in 1..(e - 1) : lit[k] \in {"0", "-", "."}

\* JavaScript truthiness of a JSON value
Truthy(v) ==
    CASE v.t = "null" -> FALSE
      [] v.t = "bool" -> v.s = <<"t">>
      [] v.t = "num"  -> ~NumIsZero(v.s)
      [] v.t = "str"  -> v.s # <<>>
      [] OTHER        -> TRUE

(***************************************************************************)
(* JSON.parse: a strict parser of the JSON grammar.  A parse step yields   *)
(* [ok, v, p]: whether it succeeded, the value, and the position after it. *)
(***************************************************************************)
PFail == [ok |-> FALSE, v |-> JNull, p |-> 0]

POk(v, p) == [ok |-> TRUE, v |-> v, p |-> p]

\* the character an escape sequence \c stands for
Unescape(c) ==
    CASE c = "n" -> "\n" [] c = "t" -> "\t" [] c = "r" -> "\r"
      [] c = "b" -> "<BS>" [] c = "f" -> "\f"
      [] OTHER -> c

\* the characters of a string literal whose opening quote is before position i
\* (from, the plain characters up to the next quote, backslash or control
\* character are taken at once)
RECURSIVE ParseStringBody(_, _, _)
ParseStringBody(s, from, acc0) ==
    LET i   == SkipTo(s, from, {"\"", "\\"} \cup ControlChars)
        acc == acc0 \o Sub(s, from, i - 1)
    IN  IF i > Len(s) THEN PFail
        ELSE IF s[i] = "\"" THEN POk(JStr(acc), i + 1)
        ELSE IF s[i] \in ControlChars THEN PFail
        ELSE IF i + 1 > Len(s) THEN PFail
        ELSE IF s[i + 1] \in {"\"", "\\", "/", "b", "f", "n", "r", "t"}
             THEN ParseStringBody(s, i + 2, Append(acc, Unescape(s[i + 1])))
        ELSE IF s[i + 1] = "u" /\ i + 5 <= Len(s)
                /\ \A k \in 2..5 : s[i + k] \in HexDigits
             THEN ParseStringBody(s, i + 6,
                      Append(acc, "<u" \o ToLower(s[i + 2]) \o ToLower(s[i + 3])
                                  \o ToLower(s[i + 4]) \o ToLower(s[i + 5]) \o ">"))
        ELSE PFail

\* a number literal at position i: -?(0|[1-9]\d*)(\.\d+)?([eE][+-]?\d+)?
ParseNumber(s, i) ==
    LET a == IF i <= Len(s) /\ s[i] = "-" THEN i + 1 ELSE i
        b == IF a <= Len(s) /\ s[a] = "0" THEN a + 1 ELSE SkipClass(s, a, Digits)
        c == IF b <= Len(s) /\ s[b] = "." THEN SkipClass(s, b + 1, Digits) ELSE b
        fracOk == c = b \/ c > b + 1
        d == IF c <= Len(s) /\ s[c] \in {"e", "E"}
             THEN (IF c + 1 <= Len(s) /\ s[c + 1] \in {"+", "-"} THEN c + 2 ELSE c + 1)
             ELSE c
        e == IF d > c THEN SkipClass(s, d, Digits) ELSE c
        expOk == d = c \/ e > d
    IN  IF b > a /\ fracOk /\ expOk THEN POk(JNum(Sub(s, i, e - 1)), e) ELSE PFail

RECURSIVE ParseValue(_, _)
RECURSIVE ParseElements(_, _, _)
RECURSIVE EndElement(_, _, _)
RECURSIVE ParseMembers(_, _, _)
RECURSIVE ParseMemberValue(_, _, _)
RECURSIVE EndMember(_, _, _, _)

\* a JSON value at or after position i, leading whitespace skipped
ParseValue(s, i) ==
    LET j == SkipClass(s, i, JsonWhiteSpace)
    IN  IF j > Len(s) THEN PFail
        ELSE IF s[j] = "{" THEN
            LET k == SkipClass(s, j + 1, JsonWhiteSpace)
            IN  IF k <= Len(s) /\ s[k] = "}" THEN POk(JObj(<<>>, <<>>), k + 1)
                ELSE ParseMembers(s, k, JObj(<<>>, <<>>))
        ELSE IF s[j] = "[" THEN
            LET k == SkipClass(s, j + 1, JsonWhiteSpace)
            IN  IF k <= Len(s) /\ s[k] = "]" THEN POk(JArr(<<>>), k + 1)
                ELSE ParseElements(s, k, <<>>)
        ELSE IF s[j] = "\"" THEN ParseStringBody(s, j + 1, <<>>)
        ELSE IF s[j] \in Digits \cup {"-"} THEN ParseNumber(s, j)
        ELSE IF At(s, j, <<"t","r","u","e">>) THEN POk(JBool(TRUE), j + 4)
        ELSE IF At(s, j, <<"f","a","l","s","e">>) THEN POk(JBool(FALSE), j + 5)
        ELSE IF At(s, j, <<"n","u","l","l">>) THEN POk(JNull, j + 4)
        ELSE PFail

\* the elements of an array from position i on, acc being those before it
ParseElements(s, i, acc) == EndElement(s, ParseValue(s, i), acc)

\* what follows the element e: a comma and more elements, or the bracket
EndElement(s, e, acc) ==
    LET j == SkipClass(s, e.p, JsonWhiteSpace)
    IN  IF ~e.ok \/ j > Len(s) THEN PFail
        ELSE IF s[j] = "," THEN ParseElements(s, j + 1, Append(acc, e.v))
        ELSE IF s[j] = "]" THEN POk(JArr(Append(acc, e.v)), j + 1)
        ELSE PFail

\* the members of an object from position i on, o holding those before it
ParseMembers(s, i, o) ==
    LET a == SkipClass(s, i, JsonWhiteSpace)
    IN  IF a <= Len(s) /\ s[a] = "\""
        THEN ParseMemberValue(s, ParseStringBody(s, a + 1, <<>>), o)
        ELSE PFail

\* what follows the key k of a member: a colon and a value
ParseMemberValue(s, k, o) ==
    LET c == SkipClass(s, k.p, JsonWhiteSpace)
    IN  IF k.ok /\ c <= Len(s) /\ s[c] = ":"
        THEN EndMember(s, ParseValue(s, c + 1), k.v.s, o)
        ELSE PFail

\* what follows the value e of the member key: a comma and more members, or
\* the brace
EndMember(s, e, key, o) ==
    LET j == SkipClass(s, e.p, JsonWhiteSpace)
    IN  IF ~e.ok \/ j > Len(s) THEN PFail
        ELSE IF s[j] = "," THEN ParseMembers(s, j + 1, SetMember(o, key, e.v))
        ELSE IF s[j] = "}" THEN POk(SetMember(o, key, e.v), j + 1)
        ELSE PFail

\* the parse r of a value at the head of s stands if only whitespace follows it
WholeText(s, r) ==
    IF r.ok /\ SkipClass(s, r.p, JsonWhiteSpace) > Len(s) THEN r ELSE PFail

\* JSON.parse(text): ok is FALSE where JSON.parse throws a SyntaxError
JSONparse(s) == WholeText(s, ParseValue(s, 1))

(***************************************************************************)
(* String.prototype.replace.  ends[i] is the position after the match of   *)
(* the pattern that starts at position i (0 when it does not match there), *)
(* reps[i] the text that replaces that match.  With the /g flag every      *)
(* match is replaced, the search resuming after each match; without it     *)
(* only the leftmost one is.                                               *)
(***************************************************************************)
RECURSIVE ReplaceMatches(_, _, _, _, _, _)
ReplaceMatches(s, ends, reps, global, i, acc) ==
    LET m == NextMatch(ends, i)
    IN  IF m = 0 THEN acc \o From(s, i)
        ELSE IF global
             THEN ReplaceMatches(s, ends, reps, global, ends[m],
                                 acc \o Sub(s, i, m - 1) \o reps[m])
        ELSE acc \o Sub(s, i, m - 1) \o reps[m] \o From(s, ends[m])

\* s.replace(/pattern/g, ...)
ReplaceAll(s, ends, reps) == ReplaceMatches(s, ends, reps, TRUE, 1, <<>>)

\* s.replace(/pattern/, ...)
ReplaceFirst(s, ends, reps) == ReplaceMatches(s, ends, reps, FALSE, 1, <<>>)

\* is position i of s a word boundary (\b)
WordBoundary(s, i) ==
    LET before == i > 1 /\ i - 1 <= Len(s) /\ s[i - 1] \in WordChars
        after  == i >= 1 /\ i <= Len(s) /\ s[i] \in WordChars
    IN  before # after

\* does the word w occur at position i, letters compared without case
AtNoCase(s, i, w) ==
    /\ i >= 1
    /\ i + Len(w) - 1 <= Len(s)
    /\ \A k \in 1..Len(w) : ToLower(s[i + k - 1]) = w[k]

(***************************************************************************)
(* The Repair Engine: the rewrites of fixCommonJsonIssues, one definition  *)
(* per replace call, in the order of the code.                             *)
(***************************************************************************)
\* fixed.replace(/^\uFEFF/, '')
StripBOM(s) == IF Len(s) >= 1 /\ s[1] = BOM THEN Tail(s) ELSE s

\* a plausible bug: no line comment is removed
KeepLineComments(s) == s

\* fixed.replace(/\/\/.*$/gm, '')
StripLineComments(s) ==
    ReplaceAll(s,
        [i \in 1..Len(s) |->
            IF At(s, i, <<"/", "/">>)
            THEN SkipTo(s, i + 2, LineTerminators)
            ELSE 0],
        [i \in 1..Len(s) |-> <<>>])

\* fixed.replace(/\/\*[\s\S]*?\*\//g, '')
StripBlockComments(s) ==
    ReplaceAll(s,
        [i \in 1..Len(s) |->
            IF At(s, i, <<"/", "*">>) /\ IndexOf(s, <<"*", "/">>, i + 2) # 0
            THEN IndexOf(s, <<"*", "/">>, i + 2) + 2
            ELSE 0],
        [i \in 1..Len(s) |-> <<>>])

\* fixed.replace(/^\s*#.*$/gm, '')
StripHashComments(s) ==
    ReplaceAll(s,
        [i \in 1..Len(s) |->
            LET p == SkipClass(s, i, WhiteSpace)
            IN  IF /\ (i = 1 \/ s[i - 1] \in LineTerminators)
                   /\ p <= Len(s)
                   /\ s[p] = "#"
                THEN SkipTo(s, p + 1, LineTerminators)
                ELSE 0],
        [i \in 1..Len(s) |-> <<>>])

\* fixed.replace(/\\'/g, "'")
UnescapeSingleQuotes(s) ==
    ReplaceAll(s,
        [i \in 1..Len(s) |-> IF At(s, i, <<"\\", "'">>) THEN i + 2 ELSE 0],
        [i \in 1..Len(s) |-> <<"'">>])

\* fixed.replace(/\\"/g, '"')
UnescapeDoubleQuotes(s) ==
    ReplaceAll(s,
        [i \in 1..Len(s) |-> IF At(s, i, <<"\\", "\"">>) THEN i + 2 ELSE 0],
        [i \in 1..Len(s) |-> <<"\"">>])

\* if (allowPartial) { if (quoteCount % 2 !== 0) fixed += '"' }
CloseUnclosedString(s, allowPartial) ==
    IF allowPartial /\ CountChar(s, "\"") % 2 # 0 THEN Append(s, "\"") ELSE s

\* a plausible bug: the commas before a closer are kept
KeepTrailingCommas(s) == s

\* fixed.replace(/,(\s*[}\]])/g, '$1')
StripTrailingCommas(s) ==
    ReplaceAll(s,
        [i \in 1..Len(s) |->
            LET p == SkipClass(s, i + 1, WhiteSpace)
            IN  IF s[i] = "," /\ p <= Len(s) /\ s[p] \in {"}", "]"}
                THEN p + 1 ELSE 0],
        [i \in 1..Len(s) |-> Sub(s, i + 1, SkipClass(s, i + 1, WhiteSpace))])

\* fixed.replace(/,\s*$/g, '')
StripFinalComma(s) ==
    ReplaceAll(s,
        [i \in 1..Len(s) |->
            IF s[i] = "," /\ SkipClass(s, i + 1, WhiteSpace) > Len(s)
            THEN Len(s) + 1 ELSE 0],
        [i \in 1..Len(s) |-> <<>>])

\* [\w\-\.] : the characters of an unquoted key after its first
KeyChars == WordChars \cup {"-", "."}

\* [a-zA-Z_$] : the first character of an unquoted key
KeyStart == LowerLetters \cup UpperLetters \cup {"_", "$"}

\* fixed.replace(/([{,]\s*)([a-zA-Z_$][\w\-\.]*)\s*:/g, '$1"$2":')
QuoteKeys(s) ==
    LET p(i) == SkipClass(s, i + 1, WhiteSpace)
        q(i) == SkipClass(s, p(i) + 1, KeyChars)
        r(i) == SkipClass(s, q(i), WhiteSpace)
    IN  ReplaceAll(s,
            [i \in 1..Len(s) |->
                IF /\ s[i] \in {"{", ","}
                   /\ p(i) <= Len(s)
                   /\ s[p(i)] \in KeyStart
                   /\ r(i) <= Len(s)
                   /\ s[r(i)] = ":"
                THEN r(i) + 1 ELSE 0],
            [i \in 1..Len(s) |->
                Sub(s, i, p(i) - 1) \o <<"\"">> \o Sub(s, p(i), q(i) - 1) \o <<"\"", ":">>])

\* the position after the closing quote of '([^'\\]*(\\.[^'\\]*)*)' whose
\* content is scanned from position p on, or 0
RECURSIVE SingleQuotedEnd(_, _)
SingleQuotedEnd(s, from) ==
    LET p == SkipTo(s, from, {"'", "\\"})
    IN  IF p > Len(s) THEN 0
        ELSE IF s[p] = "'" THEN p + 1
        ELSE IF p + 1 <= Len(s) /\ s[p + 1] \notin LineTerminators
             THEN SingleQuotedEnd(s, p + 2)
        ELSE 0

\* fixed.replace(/'([^'\\]*(\\.[^'\\]*)*)'/g, '"$1"')
ConvertSingleQuotes(s) ==
    ReplaceAll(s,
        [i \in 1..Len(s) |-> IF s[i] = "'" THEN SingleQuotedEnd(s, i + 1) ELSE 0],
        [i \in 1..Len(s) |->
            <<"\"">> \o Sub(s, i + 1, SingleQuotedEnd(s, i + 1) - 2) \o <<"\"">>])

\* fixed.replace(/:\s*word\b/gi, ': ' + literal), word given in lower case
FixLiteralAfterColon(s, word, literal) ==
    LET p(i) == SkipClass(s, i + 1, WhiteSpace)
    IN  ReplaceAll(s,
            [i \in 1..Len(s) |->
                IF /\ s[i] = ":"
                   /\ AtNoCase(s, p(i), word)
                   /\ WordBoundary(s, p(i) + Len(word))
                THEN p(i) + Len(word) ELSE 0],
            [i \in 1..Len(s) |-> <<":", " ">> \o literal])

\* fixed.replace(/\bword\b/g, literal)
FixBareLiteral(s, word, literal) ==
    ReplaceAll(s,
        [i \in 1..Len(s) |->
            IF At(s, i, word) /\ WordBoundary(s, i) /\ WordBoundary(s, i + Len(word))
            THEN i + Len(word) ELSE 0],
        [i \in 1..Len(s) |-> literal])

W_true == <<"t","r","u","e">>

W_false == <<"f","a","l","s","e">>

W_null == <<"n","u","l","l">>

W_none == <<"n","o","n","e">>

W_undefined == <<"u","n","d","e","f","i","n","e","d">>

\* fixed.replace(/"([^"]*)\\"([^"]*)"/, '"$1\\"$2"') : the leftmost match is
\* rebuilt from its two groups, q being the first quote after the opening
\* one and c the one that closes the match
FixEscapedQuote(s) ==
    LET q(i) == IndexOf(s, <<"\"">>, i + 1)
        c(i) == IndexOf(s, <<"\"">>, q(i) + 1)
    IN  ReplaceFirst(s,
            [i \in 1..Len(s) |->
                IF /\ s[i] = "\""
                   /\ q(i) > i + 1
                   /\ s[q(i) - 1] = "\\"
                   /\ c(i) # 0
                THEN c(i) + 1 ELSE 0],
            [i \in 1..Len(s) |->
                <<"\"">> \o Sub(s, i + 1, q(i) - 2) \o <<"\\", "\"">>
                    \o Sub(s, q(i) + 1, c(i) - 1) \o <<"\"">>])

\* fixed.replace(/\.\.\./g, '')
StripDots(s) ==
    ReplaceAll(s,
        [i \in 1..Len(s) |-> IF At(s, i, <<".", ".", ".">>) THEN i + 3 ELSE 0],
        [i \in 1..Len(s) |-> <<>>])

\* fixed.replace(/\u2026/g, '')
StripEllipsis(s) ==
    ReplaceAll(s,
        [i \in 1..Len(s) |-> IF s[i] = ELLIPSIS THEN i + 1 ELSE 0],
        [i \in 1..Len(s) |-> <<>>])

\* the k-th of the statements that assign to fixed (lines 52-99), applied
\* to the value fixed holds before it
Rewrite(k, fixed, allowPartial) ==
    CASE k = 1  -> StripBOM(fixed)
      [] k = 2  -> StripLineComments(fixed)
      [] k = 3  -> StripBlockComments(fixed)
      [] k = 4  -> StripHashComments(fixed)
      [] k = 5  -> UnescapeSingleQuotes(fixed)
      [] k = 6  -> UnescapeDoubleQuotes(fixed)
      [] k = 7  -> CloseUnclosedString(fixed, allowPartial)
      [] k = 8  -> StripTrailingCommas(fixed)
      [] k = 9  -> StripFinalComma(fixed)
      [] k = 10 -> QuoteKeys(fixed)
      [] k = 11 -> ConvertSingleQuotes(fixed)
      [] k = 12 -> FixLiteralAfterColon(fixed, W_true, W_true)
      [] k = 13 -> FixLiteralAfterColon(fixed, W_false, W_false)
      [] k = 14 -> FixLiteralAfterColon(fixed, W_none, W_null)
      [] k = 15 -> FixLiteralAfterColon(fixed, W_undefined, W_null)
      [] k = 16 -> FixBareLiteral(fixed, <<"T","r","u","e">>, W_true)
      [] k = 17 -> FixBareLiteral(fixed, <<"F","a","l","s","e">>, W_false)
      [] k = 18 -> FixBareLiteral(fixed, <<"N","o","n","e">>, W_null)
      [] k = 19 -> FixEscapedQuote(fixed)
      [] k = 20 -> StripDots(fixed)
      [] k = 21 -> StripEllipsis(fixed)
      [] OTHER  -> fixed

\* the statements from the k-th on, run one after the other on fixed; the
\* empty string is left as it is by every one of them
RECURSIVE RewriteFrom(_, _, _)
RewriteFrom(k, fixed, allowPartial) ==
    IF k > 21 \/ fixed = <<>> THEN fixed
    ELSE RewriteFrom(k + 1, Rewrite(k, fixed, allowPartial), allowPartial)

\* The rewrites of fixCommonJsonIssues applied to a string not in the cache
\* (lines 49-99): the string returned
Repair(jsonStr, allowPartial) == RewriteFrom(1, jsonStr, allowPartial)

(***************************************************************************)
(* The RepairCache (jsonCache): a set of entries [key, val].               *)
(***************************************************************************)
\* jsonCache.has(k)
CacheHas(cache, k) == \E e \in cache : e.key = k

\* jsonCache.get(k), for a key the cache has
CacheGet(cache, k) == (CHOOSE e \in cache : e.key = k).val

\* jsonCache.set(k, v)
CacheSet(cache, k, v) == {e \in cache : e.key # k} \cup {[key |-> k, val |-> v]}

\* lines 101-103: the result is cached and returned
CacheAndReturn(jsonStr, fixed, cache) ==
    [fixed |-> fixed, cache |-> CacheSet(cache, jsonStr, fixed)]

\* fixCommonJsonIssues(jsonStr): [fixed, cache], the string returned and the
\* cache as the call leaves it
fixCommonJsonIssues(jsonStr, allowPartial, cache) ==
    IF CacheHas(cache, jsonStr)
    THEN [fixed |-> CacheGet(cache, jsonStr), cache |-> cache]
    ELSE CacheAndReturn(jsonStr, Repair(jsonStr, allowPartial), cache)

(***************************************************************************)
(* The Boundary Scanner (findJsonBoundaries).  Positions are 1-based, so   *)
(* start = 0 and end = 0 stand for the code's -1; a span is [found, text], *)
(* found = FALSE standing for the null the code returns.                   *)
(***************************************************************************)
NoSpan == [found |-> FALSE, text |-> <<>>]

Span(text) == [found |-> TRUE, text |-> text]

\* the for loop of findJsonBoundaries from index i on: [start, end, depth]
\* An iteration that changes no loop variable is not its own step: from
\* position from the scan moves at once to the next character i that does,
\* a backslash, a quote or, outside a string, a bracket.  The character
\* after a backslash is skipped (escapeNext).
RECURSIVE ScanBoundaries(_, _, _, _, _)
ScanBoundaries(text, from, start, depth, inString) ==
    LET i == SkipTo(text, from,
                    IF inString THEN {"\\", "\""} ELSE {"\\", "\"", "{", "[", "}", "]"})
    IN  IF i > Len(text) THEN [start |-> start, end |-> 0, depth |-> depth]
        ELSE IF text[i] = "\\" THEN ScanBoundaries(text, i + 2, start, depth, inString)
        ELSE IF text[i] = "\"" THEN ScanBoundaries(text, i + 1, start, depth, ~inString)
        ELSE IF text[i] \in {"{", "["}
             THEN ScanBoundaries(text, i + 1, IF start = 0 THEN i ELSE start,
                                 depth + 1, inString)
        ELSE IF depth - 1 = 0 /\ start # 0
             THEN [start |-> start, end |-> i, depth |-> 0]
        ELSE ScanBoundaries(text, i + 1, start, depth - 1, inString)

\* a plausible bug: a span is returned only when its closer was found
findCompleteBoundaries(text, allowPartial) ==
    LET r == ScanBoundaries(text, 1, 0, 0, FALSE)
    IN  IF r.start # 0 /\ r.end # 0 THEN Span(Sub(text, r.start, r.end)) ELSE NoSpan

findJsonBoundaries(text, allowPartial) ==
    LET r == ScanBoundaries(text, 1, 0, 0, FALSE)
    IN  IF r.start # 0 /\ r.end # 0 THEN Span(Sub(text, r.start, r.end))
        ELSE IF allowPartial /\ r.start # 0
             THEN Span(From(text, r.start) \o (IF r.depth > 0 THEN <<"}">> ELSE <<>>))
        ELSE NoSpan

(***************************************************************************)
(* The Parse Pipeline (tryParseJson).  Its result carries, besides the     *)
(* code's {success, data, error}, the leg that produced it and the cache   *)
(* as the call leaves it.                                                  *)
(***************************************************************************)
ErrEmpty == <<"E","m","p","t","y"," ","J","S","O","N"," ","s","t","r","i","n","g">>

ErrAllAttempts ==
    <<"F","a","i","l","e","d"," ","t","o"," ","p","a","r","s","e"," ","J","S","O","N",
      " ","a","f","t","e","r"," ","a","l","l"," ","a","t","t","e","m","p","t","s">>

ParseSuccess(v, leg, cache) ==
    [success |-> TRUE, data |-> v, error |-> <<>>, leg |-> leg, cache |-> cache]

ParseFailure(msg, leg, cache) ==
    [success |-> FALSE, data |-> JNull, error |-> msg, leg |-> leg, cache |-> cache]

\* a plausible bug: a parse that yields a falsy value is taken for a failure
TryParseTruthy(parsed, leg, cache, otherwise) ==
    IF parsed.ok /\ Truthy(parsed.v) THEN ParseSuccess(parsed.v, leg, cache) ELSE otherwise

\* try { return {success: true, data: JSON.parse(...)} } catch { otherwise }
TryParse(parsed, leg, cache, otherwise) ==
    IF parsed.ok THEN ParseSuccess(parsed.v, leg, cache) ELSE otherwise

\* if (span) { JSON.parse(span) }: a null span is not parsed
ParseSpan(span) == IF span.found THEN JSONparse(span.text) ELSE PFail

\* lines 248-262: fix is what fixCommonJsonIssues(cleanJson) yielded; the
\* repaired string is parsed, then the span found in it
tryParseFixed(fix, o) ==
    TryParse(JSONparse(fix.fixed), "c", fix.cache,
        TryParse(ParseSpan(findJsonBoundaries(fix.fixed, o.allowPartial)), "d", fix.cache,
            ParseFailure(ErrAllAttempts, "none", fix.cache)))

\* a plausible bug: the fixing attempts are made whether attemptFix is set or not
tryParseAlways(cleanJson, o, cache) ==
    TryParse(JSONparse(cleanJson), "a", cache,
        TryParse(ParseSpan(findJsonBoundaries(cleanJson, o.allowPartial)), "b", cache,
            tryParseFixed(fixCommonJsonIssues(cleanJson, o.allowPartial, cache), o)))

\* lines 225-263: cleanJson is parsed, then the span found in it, then what
\* the repair makes of it
tryParseClean(cleanJson, o, cache) ==
    TryParse(JSONparse(cleanJson), "a", cache,
        IF ~o.attemptFix THEN ParseFailure(ErrAllAttempts, "none", cache)
        ELSE TryParse(ParseSpan(findJsonBoundaries(cleanJson, o.allowPartial)), "b", cache,
                 tryParseFixed(fixCommonJsonIssues(cleanJson, o.allowPartial, cache), o)))

tryParseJson(jsonStr, o, cache) ==
    IF jsonStr = <<>> \/ Trim(jsonStr) = <<>> THEN ParseFailure(ErrEmpty, "empty", cache)
    ELSE tryParseClean(Trim(jsonStr), o, cache)

(***************************************************************************)
(* The Candidate Extractor (extractJson).  A pattern's matches are listed  *)
(* in the order RegExp.prototype.exec finds them: [content, priority].     *)
(***************************************************************************)
\* three backticks: the fence of a markdown code block
Fence == <<BACKTICK, BACKTICK, BACKTICK>>

\* the matches of a pattern from position i on: ends[k] is the position
\* after the match that starts at k (0 for none), caps[k] its group 1
RECURSIVE ExecAll(_, _, _, _, _)
ExecAll(s, ends, caps, i, acc) ==
    LET m == NextMatch(ends, i)
    IN  IF m = 0 THEN acc
        ELSE ExecAll(s, ends, caps, ends[m], Append(acc, caps[m]))

\* jsonBlockPattern: /FENCE(?:json|JSON)\s*\n?([\s\S]*?)\n?FENCE/g
JsonBlockMatches(s) ==
    LET p(i) == SkipClass(s, i + 7, WhiteSpace)
        j(i) == IndexOf(s, Fence, p(i))
    IN  ExecAll(s,
            [i \in 1..Len(s) |->
                IF /\ At(s, i, Fence)
                   /\ (At(s, i + 3, <<"j","s","o","n">>) \/ At(s, i + 3, <<"J","S","O","N">>))
                   /\ j(i) # 0
                THEN j(i) + 3 ELSE 0],
            [i \in 1..Len(s) |-> Sub(s, p(i), j(i) - 1)],
            1, <<>>)

\* codeBlockPattern: /FENCE\s*\n?([\s\S]*?)\n?FENCE/g
CodeBlockMatches(s) ==
    LET p(i) == SkipClass(s, i + 3, WhiteSpace)
        j(i) == IndexOf(s, Fence, p(i))
    IN  ExecAll(s,
            [i \in 1..Len(s) |-> IF At(s, i, Fence) /\ j(i) # 0 THEN j(i) + 3 ELSE 0],
            [i \in 1..Len(s) |-> Sub(s, p(i), j(i) - 1)],
            1, <<>>)

\* inlinePattern: /B([^B]+)B/g, B the backtick
InlineMatches(s) ==
    LET q(i) == SkipTo(s, i + 1, {BACKTICK})
    IN  ExecAll(s,
            [i \in 1..Len(s) |->
                IF s[i] = BACKTICK /\ q(i) > i + 1 /\ q(i) <= Len(s) THEN q(i) + 1 ELSE 0],
            [i \in 1..Len(s) |-> Sub(s, i + 1, q(i) - 1)],
            1, <<>>)

\* the position after the closer that ends (open(?:[^open close]|(?:open[^open close]*close))*close)
\* whose body is scanned from position p on, or 0
RECURSIVE NestedEnd(_, _, _, _)
NestedEnd(s, from, open, close) ==
    LET p == SkipTo(s, from, {open, close})
        q == SkipTo(s, p + 1, {open, close})
    IN  IF p > Len(s) THEN 0
        ELSE IF s[p] = close THEN p + 1
        ELSE IF q <= Len(s) /\ s[q] = close THEN NestedEnd(s, q + 1, open, close)
        ELSE 0

\* /(\{(?:[^{}]|(?:\{[^{}]*\}))*\})/g and /(\[(?:[^\[\]]|(?:\[[^\[\]]*\]))*\])/g
NestedMatches(s, open, close) ==
    ExecAll(s,
        [i \in 1..Len(s) |-> IF s[i] = open THEN NestedEnd(s, i + 1, open, close) ELSE 0],
        [i \in 1..Len(s) |-> Sub(s, i, NestedEnd(s, i + 1, open, close) - 1)],
        1, <<>>)

\* content.length > 10
MinCandidateLength == 10

\* content.startsWith('{') || content.startsWith('[')
StartsLikeJson(content) == content # <<>> /\ content[1] \in {"{", "["}

\* A maxBlocks option is [type, n]: the number n or, type being "symbol", a
\* Symbol, which no comparison converts to a number
NumberValue(n) == [type |-> "number", n |-> n]

SymbolValue == [type |-> "symbol", n |-> 0]

\* results.length >= maxBlocks throws a TypeError
ComparisonThrows(maxBlocks) == maxBlocks.type = "symbol"

\* a plausible bug: the loop breaks one result late
RECURSIVE PushMatchesLate(_, _, _, _, _)
PushMatchesLate(results, matches, priority, maxBlocks, k) ==
    IF k > Len(matches) \/ Len(results) > maxBlocks.n THEN results
    ELSE LET content == Trim(matches[k])
             keep == CASE priority = 1 -> content # <<>>
                       [] priority = 4 -> content # <<>> /\ Len(content) > MinCandidateLength
                       [] OTHER -> StartsLikeJson(content)
         IN  PushMatchesLate(
                 IF keep THEN Append(results, [content |-> content, priority |-> priority])
                 ELSE results,
                 matches, priority, maxBlocks, k + 1)

\* one while loop of extractJson: the matches of one pattern are trimmed and,
\* while fewer than maxBlocks results are held, pushed if they pass the filter
RECURSIVE PushMatches(_, _, _, _, _)
PushMatches(results, matches, priority, maxBlocks, k) ==
    IF k > Len(matches) \/ Len(results) >= maxBlocks.n THEN results
    ELSE LET content == Trim(matches[k])
             keep == CASE priority = 1 -> content # <<>>
                       [] priority = 4 -> content # <<>> /\ Len(content) > MinCandidateLength
                       [] OTHER -> StartsLikeJson(content)
         IN  PushMatches(
                 IF keep THEN Append(results, [content |-> content, priority |-> priority])
                 ELSE results,
                 matches, priority, maxBlocks, k + 1)

\* Array.prototype.sort with a comparator on keys: a stable sort, ascending
\* in key[x]; x is put after every element whose key is not greater
RECURSIVE InsertByKey(_, _, _)
InsertByKey(sorted, x, key) ==
    IF sorted = <<>> THEN <<x>>
    ELSE IF key[Head(sorted)] <= key[x] THEN <<Head(sorted)>> \o InsertByKey(Tail(sorted), x, key)
    ELSE <<x>> \o sorted

RECURSIVE StableSort(_, _, _)
StableSort(xs, key, k) ==
    IF k = 0 THEN <<>>
    ELSE InsertByKey(StableSort(xs, key, k - 1), xs[k], key)

\* a plausible bug: the comparator is b.priority - a.priority
SortByPriorityDesc(results) ==
    StableSort(results, [r \in {results[k] : k \in 1..Len(results)} |-> 0 - r.priority],
               Len(results))

\* results.sort((a, b) => a.priority - b.priority)
SortByPriority(results) ==
    StableSort(results, [r \in {results[k] : k \in 1..Len(results)} |-> r.priority],
               Len(results))

\* a plausible bug: the candidates are tried in the order of their discovery
DiscoveryOrder(cands) == cands

\* candidates.sort((a, b) => b.length - a.length)
SortByLengthDesc(cands) ==
    StableSort(cands, [c \in {cands[k] : k \in 1..Len(cands)} |-> 0 - Len(c)], Len(cands))

\* the first match of any of the five patterns reaches the comparison with
\* maxBlocks (lines 114, 122, 132, 149), which throws for a Symbol
extractJsonThrows(text, o) ==
    /\ ComparisonThrows(o.maxBlocks)
    /\ \/ JsonBlockMatches(text) # <<>>
       \/ CodeBlockMatches(text) # <<>>
       \/ InlineMatches(text) # <<>>
       \/ NestedMatches(text, "{", "}") # <<>>
       \/ NestedMatches(text, "[", "]") # <<>>

\* the strings extractJson returns, when it returns
extractJson(text, o) ==
    LET r1 == PushMatches(<<>>, JsonBlockMatches(text), 1, o.maxBlocks, 1)
        r2 == PushMatches(r1, CodeBlockMatches(text), 2, o.maxBlocks, 1)
        r3 == PushMatches(r2, InlineMatches(text), 3, o.maxBlocks, 1)
        r4 == PushMatches(r3, NestedMatches(text, "{", "}"), 4, o.maxBlocks, 1)
        r5 == PushMatches(r4, NestedMatches(text, "[", "]"), 4, o.maxBlocks, 1)
        results == IF o.preferFirst THEN SortByPriority(r5) ELSE r5
    IN  [k \in 1..Len(results) |-> results[k].content]

(***************************************************************************)
(* The Result Unwrapper (unwrapResponse).                                  *)
(***************************************************************************)
\* the envelope field name
RESPONSE == <<"r","e","s","p","o","n","s","e">>

\* maxAttempts = 2
MaxAttempts == 2

\* typeof v === 'object', for a value that is not null
IsObjectType(v) == v.t \in {"obj", "arr"}

\* the loop of unwrapResponse ends: [value, attempts, cache]
Unwrapped(current, attempts, cache) ==
    [value |-> current, attempts |-> attempts, cache |-> cache]

RECURSIVE UnwrapLoop(_, _, _, _)
RECURSIVE UnwrapString(_, _, _, _)
RECURSIVE UnwrapField(_, _, _, _, _)

\* lines 301-310: parsed is tryParseJson(current.response)
UnwrapString(current, parsed, attempts, o) ==
    IF parsed.success
    THEN UnwrapLoop(parsed.data, attempts + 1, o, parsed.cache)
    ELSE Unwrapped(current, attempts, parsed.cache)

\* lines 300-319: field is current.response, which is truthy
UnwrapField(current, field, attempts, o, cache) ==
    IF field.t = "str"
    THEN UnwrapString(current, tryParseJson(field.s, o, cache), attempts, o)
    ELSE IF IsObjectType(field) THEN UnwrapLoop(field, attempts + 1, o, cache)
    ELSE Unwrapped(current, attempts, cache)

\* the while loop of unwrapResponse
UnwrapLoop(current, attempts, o, cache) ==
    IF ~(attempts < MaxAttempts /\ Truthy(current) /\ IsObjectType(current))
    THEN Unwrapped(current, attempts, cache)
    ELSE IF ~(HasKey(current, RESPONSE) /\ Truthy(Member(current, RESPONSE)))
    THEN Unwrapped(current, attempts, cache)
    ELSE UnwrapField(current, Member(current, RESPONSE), attempts, o, cache)

\* a plausible bug: the response field is descended whatever it holds
unwrapAnyResponse(data, o, cache) ==
    [value    |-> IF HasKey(data, RESPONSE) THEN Member(data, RESPONSE) ELSE data,
     attempts |-> IF HasKey(data, RESPONSE) THEN 1 ELSE 0,
     cache    |-> cache]

\* unwrapResponse(data)
unwrapResponse(data, o, cache) == UnwrapLoop(data, 0, o, cache)

(***************************************************************************)
(* The orchestrator's pieces: option and input normalisation, the fast     *)
(* path, the failure record.                                               *)
(***************************************************************************)
\* maxBlocks = 5
DefaultMaxBlocks == 5

\* a plausible bug: truncated JSON is allowed by default
LenientDefaults ==
    [attemptFix |-> TRUE, maxBlocks |-> NumberValue(DefaultMaxBlocks),
     preferFirst |-> TRUE, allowPartial |-> TRUE]

\* the defaults of the destructuring at lines 13-18
DefaultOptions ==
    [attemptFix |-> TRUE, maxBlocks |-> NumberValue(DefaultMaxBlocks),
     preferFirst |-> TRUE, allowPartial |-> FALSE]

\* An options argument is [kind, has, attemptFix, maxBlocks, preferFirst,
\* allowPartial]: kind is the JavaScript type of the argument and has the set
\* of fields an object argument defines.  The result is the record the
\* destructuring yields.
NormalizeOptions(o) ==
    IF o.kind # "object" THEN DefaultOptions
    ELSE [attemptFix   |-> IF "attemptFix" \in o.has
                           THEN o.attemptFix ELSE DefaultOptions.attemptFix,
          maxBlocks    |-> IF "maxBlocks" \in o.has
                           THEN o.maxBlocks ELSE DefaultOptions.maxBlocks,
          preferFirst  |-> IF "preferFirst" \in o.has
                           THEN o.preferFirst ELSE DefaultOptions.preferFirst,
          allowPartial |-> IF "allowPartial" \in o.has
                           THEN o.allowPartial ELSE DefaultOptions.allowPartial]

\* A response argument is [kind, str]: kind is its JavaScript type
\* ("unconvertible" for a value whose conversion to a string throws) and str
\* the string itself, or what String(response) yields for another type.
\* String(response): threw is TRUE where the conversion throws
ConvertToString(r) ==
    [threw |-> r.kind = "unconvertible", str |-> r.str]

\* a plausible bug: only the empty string counts as no input
NormalizeInputNoTrim(r) ==
    IF r.kind \in {"null", "undefined", "unconvertible"} \/ r.str = <<>>
    THEN [status |-> "null", str |-> <<>>]
    ELSE [status |-> "ok", str |-> r.str]

\* lines 20-37: status "null" for the early return null, "ok" with the string
\* to parse
NormalizeInput(r) ==
    IF r.kind \in {"null", "undefined"} THEN [status |-> "null", str |-> <<>>]
    ELSE LET conv == IF r.kind = "string"
                     THEN [threw |-> FALSE, str |-> r.str]
                     ELSE ConvertToString(r)
         IN  IF conv.threw THEN [status |-> "null", str |-> <<>>]
             ELSE IF conv.str = <<>> \/ Trim(conv.str) = <<>>
                  THEN [status |-> "null", str |-> <<>>]
             ELSE [status |-> "ok", str |-> conv.str]

\* response.match(/FENCEjson\s*\n([\s\S]*?)\n FENCE/): group 1 of the leftmost
\* match.  \s* gives back up to the last newline nl of the whitespace run after
\* the label; the body then runs to the first newline-plus-fence at c.  When
\* there is none the match can still end on nl itself, the body then being
\* the whitespace between an earlier newline and nl.
FastPathMatch(s) ==
    LET label == Fence \o <<"j","s","o","n">>
        close == <<"\n">> \o Fence
        p(i)  == SkipClass(s, i + 7, WhiteSpace)
        nl(i) == SkipClassBack(s, p(i) - 1, WhiteSpace \ {"\n"})
        hasNl(i) == nl(i) >= i + 7
        c(i)  == IndexOf(s, close, nl(i) + 1)
        nl0(i) == SkipClassBack(s, nl(i) - 1, WhiteSpace \ {"\n"})
        degenerate(i) == c(i) = 0 /\ nl(i) = p(i) - 1 /\ At(s, nl(i), close) /\ nl0(i) >= i + 7
        ms == ExecAll(s,
                [i \in 1..Len(s) |->
                    IF At(s, i, label) /\ hasNl(i) /\ (c(i) # 0 \/ degenerate(i))
                    THEN Len(s) + 1 ELSE 0],
                [i \in 1..Len(s) |->
                    IF c(i) # 0 THEN Sub(s, nl(i) + 1, c(i) - 1)
                    ELSE Sub(s, nl0(i) + 1, nl(i) - 1)],
                1, <<>>)
    IN  IF ms = <<>> THEN NoSpan ELSE Span(Head(ms))

\* lines 276-285: jsonMatch[1] is trimmed and parsed
ParseMatch(m) == IF m.found THEN JSONparse(Trim(m.text)) ELSE PFail

\* the parse r with its value passed through the unwrapper
UnwrapParse(r) ==
    IF r.ok THEN POk(unwrapResponse(r.v, DefaultOptions, {}).value, r.p) ELSE r

\* a plausible change: the fast path passes its parse through the unwrapper
FastPathUnwrapping(s) == UnwrapParse(ParseMatch(FastPathMatch(s)))

\* lines 272-288: the value the fast path returns, if it returns
FastPath(s) == ParseMatch(FastPathMatch(s))

SUCCESS == <<"s","u","c","c","e","s","s">>

DATA == <<"d","a","t","a">>

ERROR == <<"e","r","r","o","r">>

RAWJSON == <<"r","a","w","J","s","o","n">>

ErrNoJson ==
    <<"N","o"," ","v","a","l","i","d"," ","J","S","O","N"," ","f","o","u","n","d",
      " ","i","n"," ","t","h","e"," ","r","e","s","p","o","n","s","e">>

\* lines 361-366
FailureRecord ==
    JObj(<<SUCCESS, DATA, ERROR, RAWJSON>>, <<JBool(FALSE), JNull, JStr(ErrNoJson), JNull>>)

\* the object tryParseJson returns when it fails (lines 220 and 265-269)
PipelineFailureValue(msg) ==
    JObj(<<SUCCESS, DATA, ERROR>>, <<JBool(FALSE), JNull, JStr(msg)>>)

(***************************************************************************)
(* One call of parseLLMJson(response, options) as a state machine: pc is   *)
(* the place the call has reached, one action per strategy.                *)
(***************************************************************************)
VARIABLES
    response,    \* the response argument
    options,     \* the options argument
    pc,          \* "start", "fastpath", "direct", "extract", "candidates", "fail", "done"
    str,         \* response once it is known to be a non-empty string
    opts,        \* the destructured options
    jsonCache,   \* the Map built at line 40
    candidates,  \* sortedCandidates
    ci,          \* the index of the candidate the for loop is at
    result,      \* the value returned
    outcome,     \* "running", "returned" or "threw"
    trace,       \* the strategies run so far, in order
    repaired,    \* what successive calls of fixCommonJsonIssues returned
    boundaries,  \* what a call of findJsonBoundaries on its own returned
    unwrapped,   \* what a call of unwrapResponse on its own returned
    history,     \* the calls of parseLLMJson that have returned, in order
    apiKey,          \* POST /api/agent: is LYZR_API_KEY set in the environment
    request,         \* the body of the request
    upstream,        \* what the call of the upstream API came to
    rpc,             \* where the route handler stands
    cleaned,         \* strategy 1's string
    parsedResponse,  \* the handler's parsedResponse
    fetched,         \* the bodies sent to the upstream API, in order
    reply,           \* the response of the route
    pipeline,        \* what a call of tryParseJson on its own returned
    blocks,          \* what a call of extractJson on its own returned
    hubCandidates,   \* OnboardingHub: the candidates state of the latest render
    tasks,           \* OnboardingHub: the tasks state of the latest render
    inflight,        \* OnboardingHub: the calls of handleInitiate awaiting callAgent
    nextId,          \* OnboardingHub: how many ids Math.random() has handed out
    currentTab,      \* OnboardingHub: the tab that is rendered
    onboarded,       \* OnboardingHub: the ids of the candidates the form has added
    agentCalls       \* OnboardingHub: how many calls of callAgent were made

\* the variables of the route handler
routeVars == <<apiKey, request, upstream, rpc, cleaned, parsedResponse, fetched, reply>>

\* the state of the OnboardingHub component
hubVars == <<hubCandidates, tasks, inflight, nextId, currentTab, onboarded, agentCalls>>

\* the variables of the parse pipeline and the extractor called on their own,
\* and of the component
moreVars == <<pipeline, blocks, hubVars>>

\* what one call of parseLLMJson leaves alone
others == <<boundaries, unwrapped, history, routeVars, moreVars>>

vars == <<response, options, pc, str, opts, jsonCache, candidates, ci, result,
          outcome, trace, repaired, others>>

\* the value of result while the call has not returned
NoResult == [t |-> "none", s |-> <<>>, keys |-> <<>>, kids |-> <<>>]

\* return v
Return(v) ==
    /\ pc' = "done"
    /\ outcome' = "returned"
    /\ result' = v

\* an exception leaves parseLLMJson
Throw ==
    /\ pc' = "done"
    /\ outcome' = "threw"
    /\ result' = NoResult

\* lines 278-284: return parsed, or go on to the comprehensive parsing
ReturnIfOk(r) ==
    IF r.ok THEN Return(r.v)
    ELSE pc' = "direct" /\ UNCHANGED <<result, outcome>>

\* if (result.success) return unwrapResponse(result.data): the call returns
\* or goes on at next, the for loop at candidate nextCi
ReturnIfParsed(r, u, next, nextCi) ==
    IF r.success
    THEN Return(u.value) /\ jsonCache' = u.cache /\ ci' = ci
    ELSE /\ pc' = next
         /\ ci' = nextCi
         /\ jsonCache' = r.cache
         /\ UNCHANGED <<result, outcome>>

\* const result = tryParseJson(jsonStr), and what follows it
ParseAndReturn(r, next, nextCi) ==
    ReturnIfParsed(r, unwrapResponse(r.data, opts, r.cache), next, nextCi)

\* a plausible bug: the cache of the call before is taken over
PreviousMap == jsonCache

\* line 40: new Map()
NewMap == {}

\* lines 7-40: options and input are normalised, the cache is built
Normalize ==
    /\ pc = "start"
    /\ opts' = NormalizeOptions(options)
    /\ LET n == NormalizeInput(response)
       IN  /\ str' = n.str
           /\ IF n.status = "ok"
              THEN pc' = "fastpath" /\ UNCHANGED <<result, outcome>>
              ELSE Return(JNull)
    /\ jsonCache' = NewMap
    /\ UNCHANGED <<response, options, candidates, ci, trace, repaired>>
    /\ UNCHANGED others

\* lines 272-288: the fast path
TryFastPath ==
    /\ pc = "fastpath"
    /\ ReturnIfOk(FastPath(str))
    /\ trace' = Append(trace, "fast")
    /\ UNCHANGED <<response, options, str, opts, jsonCache, candidates, ci, repaired>>
    /\ UNCHANGED others

\* lines 329-334: the Parse Pipeline on the whole response
TryDirect ==
    /\ pc = "direct"
    /\ ParseAndReturn(tryParseJson(str, opts, jsonCache), "extract", ci)
    /\ trace' = Append(trace, "direct")
    /\ UNCHANGED <<response, options, str, opts, candidates, repaired>>
    /\ UNCHANGED others

\* lines 336-340: the candidates are extracted and sorted by length
Extract ==
    /\ pc = "extract"
    /\ IF extractJsonThrows(str, opts)
       THEN Throw /\ UNCHANGED <<candidates, ci>>
       ELSE /\ candidates' = SortByLengthDesc(extractJson(str, opts))
            /\ ci' = 1
            /\ pc' = "candidates"
            /\ UNCHANGED <<result, outcome>>
    /\ trace' = Append(trace, "extract")
    /\ UNCHANGED <<response, options, str, opts, jsonCache, repaired>>
    /\ UNCHANGED others

\* lines 343-348: one iteration of the for loop over the candidates
TryCandidate ==
    /\ pc = "candidates"
    /\ ci <= Len(candidates)
    /\ ParseAndReturn(tryParseJson(candidates[ci], opts, jsonCache), "candidates", ci + 1)
    /\ trace' = Append(trace, "candidate")
    /\ UNCHANGED <<response, options, str, opts, candidates, repaired>>
    /\ UNCHANGED others

\* lines 350-359: the aggressive extraction, after the last candidate
TryAggressive ==
    /\ pc = "candidates"
    /\ ci > Len(candidates)
    /\ LET aggressiveJson == findJsonBoundaries(str, opts.allowPartial)
       IN  IF opts.attemptFix /\ aggressiveJson.found
           THEN ParseAndReturn(tryParseJson(aggressiveJson.text, opts, jsonCache), "fail", ci)
           ELSE pc' = "fail" /\ UNCHANGED <<jsonCache, ci, result, outcome>>
    /\ trace' = IF opts.attemptFix THEN Append(trace, "aggressive") ELSE trace
    /\ UNCHANGED <<response, options, str, opts, candidates, repaired>>
    /\ UNCHANGED others

\* a plausible bug: the last pipeline failure is handed to the caller
ReturnPipelineFailure ==
    /\ pc = "fail"
    /\ Return(PipelineFailureValue(ErrAllAttempts))
    /\ UNCHANGED <<response, options, str, opts, jsonCache, candidates, ci, trace, repaired>>
    /\ UNCHANGED others

\* lines 361-366: the failure record is returned
ReturnFailure ==
    /\ pc = "fail"
    /\ Return(FailureRecord)
    /\ UNCHANGED <<response, options, str, opts, jsonCache, candidates, ci, trace, repaired>>
    /\ UNCHANGED others

Next ==
    \/ Normalize
    \/ TryFastPath
    \/ TryDirect
    \/ Extract
    \/ TryCandidate
    \/ TryAggressive
    \/ ReturnFailure

(***************************************************************************)
(* The arguments the calls are made with.                                  *)
(***************************************************************************)
\* the depth to which the generated JSON values nest
MaxNest == 2

\* the scalars of the generated values; the last one is a string that holds
\* JSON text
JsonAtoms ==
    { JNull, JBool(TRUE), JNum(<<"0">>), JStr(<<>>), JStr(<<"h","i">>),
      JStr(<<"{","\"","a","\"",":","1","}">>) }

\* the field names of the generated objects
FieldNames == {RESPONSE, <<"a">>}

\* the values that nest to depth d: the scalars, and around each value of
\* depth d - 1 an object of one field and an array of one element
RECURSIVE JsonValues(_)
JsonValues(d) ==
    IF d = 0 THEN JsonAtoms
    ELSE LET V == JsonValues(d - 1)
         IN  V \cup {JObj(<<k>>, <<v>>) : k \in FieldNames, v \in V}
               \cup {JArr(<<v>>) : v \in V}

\* objects of two fields, response first
TwoFieldValues ==
    {JObj(<<RESPONSE, <<"a">> >>, <<v, JNum(<<"1">>)>>) : v \in JsonAtoms}

\* the characters of a string between the quotes of its JSON text
EscapeString(s) ==
    ReplaceAll(s,
        [i \in 1..Len(s) |-> IF s[i] \in {"\"", "\\"} THEN i + 1 ELSE 0],
        [i \in 1..Len(s) |-> <<"\\", s[i]>>])

\* the compact JSON text of a value
RECURSIVE Stringify(_)
RECURSIVE StringifyList(_, _, _)
Stringify(v) ==
    CASE v.t = "null" -> W_null
      [] v.t = "bool" -> IF v.s = <<"t">> THEN W_true ELSE W_false
      [] v.t = "num"  -> v.s
      [] v.t = "str"  -> <<"\"">> \o EscapeString(v.s) \o <<"\"">>
      [] v.t = "arr"  -> <<"[">> \o StringifyList(v, 1, <<>>) \o <<"]">>
      [] OTHER        -> <<"{">> \o StringifyList(v, 1, <<>>) \o <<"}">>

\* the comma-separated texts of the members of v from the k-th on
StringifyList(v, k, acc) ==
    IF k > Len(v.kids) THEN acc
    ELSE StringifyList(v, k + 1,
             acc \o (IF k > 1 THEN <<",">> ELSE <<>>)
                 \o (IF v.t = "obj"
                     THEN <<"\"">> \o EscapeString(v.keys[k]) \o <<"\"", ":">>
                     ELSE <<>>)
                 \o Stringify(v.kids[k]))

\* strictly valid JSON texts: the generated values, compact, and the
\* shallower ones padded with whitespace
ValidJsonTexts ==
    {Stringify(v) : v \in JsonValues(MaxNest) \cup TwoFieldValues \cup {FailureRecord}}
        \cup {<<" ">> \o Stringify(v) \o <<"\n">> : v \in JsonValues(MaxNest - 1)}

\* the ways a json-labelled fence opens and closes
FenceOpenFast == Fence \o <<"j","s","o","n","\n">>

FenceCloseFast == <<"\n">> \o Fence

FenceOpens ==
    { FenceOpenFast,
      Fence \o <<"j","s","o","n"," ">>,
      Fence \o <<"j","s","o","n">>,
      Fence \o <<"J","S","O","N","\n">> }

FenceCloses == {FenceCloseFast, Fence}

\* the values whose text is fenced
FencedValues == JsonValues(MaxNest - 1)

\* a response that is one json-labelled fenced block around the text of v
Fenced(open, v, close) == open \o Stringify(v) \o close

FencedTexts ==
    {Fenced(open, v, close) : open \in FenceOpens, v \in FencedValues, close \in FenceCloses}

\* objects embedded in prose
EmbeddedObjects ==
    { <<"{","\"","x","\"",":"," ","1","}">>,
      <<"{","\"","x","\"",":"," ","2","}">>,
      <<"{","\"","n","a","m","e","\"",":"," ","\"","f","i","r","s","t","\"","}">>,
      <<"{","\"","n","a","m","e","\"",":"," ","\"","s","e","c","o","n","d","\"","}">> }

Embedded(first, second) ==
    <<"H","e","r","e"," ","i","s"," ","y","o","u","r"," ","d","a","t","a",":"," ">>
        \o first \o <<" ","a","n","d"," ","m","o","r","e"," ","t","e","x","t"," ">> \o second

EmbeddedTexts ==
    {Embedded(p[1], p[2]) : p \in {q \in EmbeddedObjects \X EmbeddedObjects : q[1] # q[2]}}

\* malformed, wrapped and commented responses
OtherTexts ==
    { <<"n","o","t"," ","j","s","o","n"," ","a","t"," ","a","l","l">>,
      <<"{","b","r","o","k","e","n"," ","j","s","o","n">>,
      <<"{","'","a","'",":"," ","1",","," ","'","b","'",":"," ","T","r","u","e",","," ","}">>,
      <<"{","\"","n","a","m","e","\"",":"," ","\"","J","o">>,
      <<"{","\"","u","r","l","\"",":"," ","\"","h","t","t","p",":","/","/","a",".","c","o",
        "m","\"",",","}">>,
      <<"{","\"","a","\"",":"," ","N","o","n","e",","," ","\"","b","\"",":"," ","u","n","d",
        "e","f","i","n","e","d","}">>,
      <<"[","1",",",",","]">>,
      <<"{","\"","a","\"",":"," ","1","}"," ","t","r","a","i","l","i","n","g">>,
      <<"{","\"","a","\"",":"," ","[","1",","," ","2","}">>,
      <<"T","h","e"," ","a","n","s","w","e","r"," ","i","s"," ","{","a","n","s","w","e","r",
        ":"," ","4","2",","," ","l","i","s","t",":"," ","[","1",",","2",",","]",",","}">>,
      <<"R","e","s","u","l","t",":"," ","{","\"","s","t","a","t","u","s","\"",":"," ","\"",
        "o","k","\"",","," ","\"","i","t","e","m","s","\"",":"," ","[","1",","," ","2",",",
        " ","3","]","}"," ","d","o","n","e",".">>,
      <<"I","n","l","i","n","e"," ","<BACKTICK>","{","\"","a","\"",":","1","2","3","4","5",
        "6","7","}","<BACKTICK>"," ","h","e","r","e">>,
      <<"<BACKTICK>","<BACKTICK>","<BACKTICK>","\n","{","\"","a","\"",":"," ","1","}","\n",
        "<BACKTICK>","<BACKTICK>","<BACKTICK>">>,
      <<"<BACKTICK>","<BACKTICK>","<BACKTICK>","j","s","o","n","\n","{","b","a","d","}","\n",
        "<BACKTICK>","<BACKTICK>","<BACKTICK>">>,
      <<"<BACKTICK>","<BACKTICK>","<BACKTICK>","j","s","o","n","\n","{","\"","a","\"",":"," ",
        "1",",","}","\n","<BACKTICK>","<BACKTICK>","<BACKTICK>">>,
      <<"S","u","r","e",":","\n","<BACKTICK>","<BACKTICK>","<BACKTICK>","j","s","o","n","\n",
        "{","\"","r","e","s","p","o","n","s","e","\"",":","{","\"","a","\"",":","1","}","}",
        "\n","<BACKTICK>","<BACKTICK>","<BACKTICK>","\n","D","o","n","e",".">>,
      <<"<BACKTICK>","<BACKTICK>","<BACKTICK>","j","s","o","n","\n","{","\"","a","\"",":","1",
        "}","\n","<BACKTICK>","<BACKTICK>","<BACKTICK>","\n","<BACKTICK>","<BACKTICK>",
        "<BACKTICK>","j","s","o","n","\n","{","\"","b","\"",":","2","}","\n","<BACKTICK>",
        "<BACKTICK>","<BACKTICK>">>,
      <<"{","\"","r","e","s","p","o","n","s","e","\"",":","{","\"","r","e","s","p","o","n",
        "s","e","\"",":","{","\"","r","e","s","p","o","n","s","e","\"",":","{","\"","a","\"",
        ":","1","}","}","}","}">>,
      <<"{","\"","r","e","s","p","o","n","s","e","\"",":","\"","{","\\","\"","r","e","s","p",
        "o","n","s","e","\\","\"",":","{","\\","\"","a","\\","\"",":","1","}","}","\"","}">>,
      <<"/","/"," ","n","o","t","e","\n","{","\"","a","\"",":"," ","1","}">>,
      <<"<BACKTICK>","{","b","a","d"," ","b","a","d"," ","b","a","d","}","<BACKTICK>"," ",
        "<BACKTICK>","{","\"","a","\"",":","1","2","3","4","}","<BACKTICK>">>,
      <<"{","b","a","d"," ","b","a","d"," ","b","a","d","}"," ","<BACKTICK>","[","1",",","2",
        ",","3",",","4",",","5",",","6","]","<BACKTICK>"," ","{","\"","a","\"",":","1","2",
        "3","4","5","6","7","}">> }

\* strings that are empty or hold only whitespace
BlankTexts ==
    { <<>>,
      <<" ">>,
      <<" ","\n","\t"," ">>,
      <<"<BOM>">> }

StringResponse(s) == [kind |-> "string", str |-> s]

\* null, undefined, a number, an object, an empty array, an object whose
\* conversion to a string throws
NonStringResponses ==
    { [kind |-> "null", str |-> <<>>],
      [kind |-> "undefined", str |-> <<>>],
      [kind |-> "number", str |-> <<"4","2">>],
      [kind |-> "object", str |-> <<"[","o","b","j","e","c","t"," ","O","b","j","e","c","t","]">>],
      [kind |-> "array", str |-> <<>>],
      [kind |-> "unconvertible", str |-> <<>>] }

Responses ==
    {StringResponse(s) : s \in ValidJsonTexts \cup FencedTexts \cup EmbeddedTexts
                                 \cup OtherTexts \cup BlankTexts}
        \cup NonStringResponses

\* an options argument that is not an object, or is an array
NonObjectOptions ==
    {[kind |-> k, has |-> {}, attemptFix |-> TRUE, maxBlocks |-> NumberValue(0),
      preferFirst |-> TRUE, allowPartial |-> FALSE] :
        k \in {"undefined", "null", "array", "string", "number"}}

\* objects that set the three flags
FlagOptions ==
    {[kind |-> "object", has |-> {"attemptFix", "preferFirst", "allowPartial"},
      attemptFix |-> a, maxBlocks |-> NumberValue(0), preferFirst |-> p, allowPartial |-> ap] :
        a \in BOOLEAN, p \in BOOLEAN, ap \in BOOLEAN}

\* objects that set maxBlocks, to a number or to a Symbol, and attemptFix
MaxBlocksOptions ==
    {[kind |-> "object", has |-> {"attemptFix", "maxBlocks"},
      attemptFix |-> a, maxBlocks |-> m, preferFirst |-> TRUE, allowPartial |-> FALSE] :
        a \in BOOLEAN, m \in {NumberValue(0), NumberValue(1), SymbolValue}}

OptionValues == NonObjectOptions \cup FlagOptions \cup MaxBlocksOptions

\* a field that is not there, a variable that is not set
Undefined == [t |-> "undefined", s |-> <<>>, keys |-> <<>>, kids |-> <<>>]

\* no response of the route yet
NoReply ==
    [status |-> 0, success |-> FALSE, error |-> "", response |-> Undefined,
     raw_response |-> Undefined, agent_id |-> Undefined, user_id |-> Undefined,
     session_id |-> Undefined]

\* no request has been received
RouteIdle ==
    /\ apiKey = TRUE
    /\ request = [kind |-> "none"]
    /\ upstream = [kind |-> "none"]
    /\ rpc = "off"
    /\ cleaned = <<>>
    /\ parsedResponse = Undefined
    /\ fetched = <<>>
    /\ reply = NoReply

\* no call of the pieces on their own has been made, no call has returned
PiecesIdle ==
    /\ boundaries = NoSpan
    /\ unwrapped = Unwrapped(NoResult, 0, {})
    /\ history = <<>>

\* the component is not mounted
HubIdle ==
    /\ hubCandidates = <<>>
    /\ tasks = <<>>
    /\ inflight = {}
    /\ nextId = 0
    /\ currentTab = "off"
    /\ onboarded = {}
    /\ agentCalls = 0

\* the value of pipeline while tryParseJson has not been called
NoPipeline == [success |-> FALSE, data |-> NoResult, error |-> <<>>, leg |-> "idle", cache |-> {}]

\* neither the parse pipeline nor the extractor has been called on its own
MoreIdle ==
    /\ pipeline = NoPipeline
    /\ blocks = <<>>
    /\ HubIdle

OthersIdle == PiecesIdle /\ RouteIdle /\ MoreIdle

Init ==
    /\ response \in Responses
    /\ options \in OptionValues
    /\ pc = "start"
    /\ str = <<>>
    /\ opts = DefaultOptions
    /\ jsonCache = {}
    /\ candidates = <<>>
    /\ ci = 1
    /\ result = NoResult
    /\ outcome = "running"
    /\ trace = <<>>
    /\ repaired = <<>>
    /\ OthersIdle

Spec == Init /\ [][Next]_vars

(***************************************************************************)
(* The Repair Engine on its own: fixCommonJsonIssues is called on a        *)
(* string, then on what it returned.                                       *)
(***************************************************************************)
\* the number of tokens a repaired string is made of, at most
MaxTokens == 3

\* the number of successive calls
MaxCalls == 2

RepairTokens ==
    { <<"[">>,
      <<"]">>,
      <<"{">>,
      <<"}">>,
      <<",">>,
      <<":">>,
      <<"\"">>,
      <<"\\">>,
      <<"'">>,
      <<"a">>,
      <<"1">>,
      <<" ">>,
      <<"T","r","u","e">>,
      <<".",".",".">>,
      <<"/","/">> }

\* the concatenation of a sequence of strings
RECURSIVE Concat(_)
Concat(ss) == IF ss = <<>> THEN <<>> ELSE Head(ss) \o Concat(Tail(ss))

RepairInputs ==
    {Concat(ts) : ts \in UNION {[1..n -> RepairTokens] : n \in 1..MaxTokens}}

InitRepair ==
    /\ str \in RepairInputs
    /\ opts \in {[DefaultOptions EXCEPT !.allowPartial = b] : b \in BOOLEAN}
    /\ response = StringResponse(str)
    /\ options = [kind |-> "object", has |-> {"allowPartial"}, attemptFix |-> TRUE,
                  maxBlocks |-> NumberValue(0), preferFirst |-> TRUE,
                  allowPartial |-> opts.allowPartial]
    /\ pc = "repair"
    /\ jsonCache = {}
    /\ candidates = <<>>
    /\ ci = 1
    /\ result = NoResult
    /\ outcome = "running"
    /\ trace = <<>>
    /\ repaired = <<>>
    /\ OthersIdle

\* fix is what a call of fixCommonJsonIssues yielded
Fixed(fix) ==
    /\ repaired' = Append(repaired, fix.fixed)
    /\ jsonCache' = fix.cache

\* lines 43-104: fixCommonJsonIssues is called on str, or on what the call
\* before returned
CallFix ==
    /\ pc = "repair"
    /\ Len(repaired) < MaxCalls
    /\ Fixed(fixCommonJsonIssues(IF repaired = <<>> THEN str ELSE repaired[Len(repaired)],
                                 opts.allowPartial, jsonCache))
    /\ UNCHANGED <<response, options, pc, str, opts, candidates, ci, result, outcome, trace>>
    /\ UNCHANGED others

NextRepair == CallFix

SpecRepair == InitRepair /\ [][NextRepair]_vars

(***************************************************************************)
(* The Boundary Scanner on its own: findJsonBoundaries is called on a      *)
(* text of brackets, quotes, backslashes and letters.                      *)
(***************************************************************************)
\* the number of characters of a scanned text, at most
MaxScanLen == 5

ScanChars == {"{", "}", "[", "]", "\"", "\\", "a"}

ScanInputs == UNION {[1..n -> ScanChars] : n \in 1..MaxScanLen}

\* the options object whose allowPartial is b, and the options it normalises to
PartialOptions(b) ==
    [kind |-> "object", has |-> {"allowPartial"}, attemptFix |-> TRUE,
     maxBlocks |-> NumberValue(0), preferFirst |-> TRUE, allowPartial |-> b]

\* the parser's variables when a piece of it is called on its own on the
\* string s under the options o, the call standing at p
PieceCalled(p, s, o) ==
    /\ str = s
    /\ opts = [DefaultOptions EXCEPT !.allowPartial = o.allowPartial]
    /\ response = StringResponse(s)
    /\ options = o
    /\ pc = p
    /\ jsonCache = {}
    /\ candidates = <<>>
    /\ ci = 1
    /\ result = NoResult
    /\ outcome = "running"
    /\ trace = <<>>
    /\ repaired = <<>>

InitScan ==
    /\ \E s \in ScanInputs, b \in BOOLEAN : PieceCalled("scan", s, PartialOptions(b))
    /\ OthersIdle

\* lines 166-215: findJsonBoundaries is called on str
CallScan ==
    /\ pc = "scan"
    /\ boundaries' = findJsonBoundaries(str, opts.allowPartial)
    /\ pc' = "done"
    /\ UNCHANGED <<response, options, str, opts, jsonCache, candidates, ci, result,
                   outcome, trace, repaired, unwrapped, history, routeVars, moreVars>>

NextScan == CallScan

SpecScan == InitScan /\ [][NextScan]_vars

(***************************************************************************)
(* The Result Unwrapper on its own: unwrapResponse is called on a value    *)
(* wrapped in envelopes, one iteration of its loop being one step.         *)
(***************************************************************************)
\* the number of envelopes around a value, at most
MaxWrap == 3

\* what the envelopes are put around
EnvelopeCores ==
    { JObj(<< <<"a">> >>, <<JNum(<<"1">>)>>), JArr(<<>>), JNum(<<"0">>),
      JStr(<<"h","i">>), JNull, JBool(TRUE) }

\* v inside n envelopes, each one an object whose response field holds
\* either the value or its JSON text
RECURSIVE Envelopes(_)
Envelopes(n) ==
    IF n = 0 THEN EnvelopeCores
    ELSE LET V == Envelopes(n - 1)
         IN  V \cup {JObj(<<RESPONSE>>, <<v>>) : v \in V}
               \cup {JObj(<<RESPONSE>>, <<JStr(Stringify(v))>>) : v \in V}

\* a plausible bug: a descent that is not counted
DescendUncounted(current, attempts, cache) ==
    [value |-> current, attempts |-> attempts, cache |-> cache, more |-> TRUE]

\* lines 297-298, 305-306, 313-314: the loop goes on with current.response,
\* or what it parses to, as current
Descend(current, attempts, cache) ==
    [value |-> current, attempts |-> attempts + 1, cache |-> cache, more |-> TRUE]

\* lines 308-309, 317-318, 321-322 and a false loop condition: the loop ends
Break(current, attempts, cache) ==
    [value |-> current, attempts |-> attempts, cache |-> cache, more |-> FALSE]

\* a plausible bug: the loop goes on with parsed.data though the parse failed
IterateStringAlways(current, parsed, attempts) ==
    Descend(parsed.data, attempts, parsed.cache)

\* lines 301-310: parsed is tryParseJson(current.response)
IterateString(current, parsed, attempts) ==
    IF parsed.success THEN Descend(parsed.data, attempts, parsed.cache)
    ELSE Break(current, attempts, parsed.cache)

\* lines 297-323: one evaluation of the loop condition and, when it holds,
\* of the loop body
Iterate(current, attempts, o, cache) ==
    IF ~(attempts < MaxAttempts /\ Truthy(current) /\ IsObjectType(current))
    THEN Break(current, attempts, cache)
    ELSE IF ~(HasKey(current, RESPONSE) /\ Truthy(Member(current, RESPONSE)))
    THEN Break(current, attempts, cache)
    ELSE IF Member(current, RESPONSE).t = "str"
    THEN IterateString(current,
                       tryParseJson(Member(current, RESPONSE).s, o, cache), attempts)
    ELSE IF IsObjectType(Member(current, RESPONSE))
    THEN Descend(Member(current, RESPONSE), attempts, cache)
    ELSE Break(current, attempts, cache)

\* lines 294-295: current = data, attempts = 0; data is what str parses to
InitUnwrap ==
    /\ \E d \in Envelopes(MaxWrap), b \in BOOLEAN :
          /\ PieceCalled("unwrap", Stringify(d), PartialOptions(b))
          /\ unwrapped = Unwrapped(d, 0, {})
    /\ boundaries = NoSpan
    /\ history = <<>>
    /\ RouteIdle
    /\ MoreIdle

\* r is what the iteration yielded; trace records the descents
Iterated(r) ==
    /\ unwrapped' = Unwrapped(r.value, r.attempts, r.cache)
    /\ jsonCache' = r.cache
    /\ pc' = IF r.more THEN "unwrap" ELSE "done"
    /\ trace' = IF r.more THEN Append(trace, "descend") ELSE trace

\* lines 297-323: one iteration of the while loop, or its end
UnwrapStep ==
    /\ pc = "unwrap"
    /\ Iterated(Iterate(unwrapped.value, unwrapped.attempts, opts, unwrapped.cache))
    /\ UNCHANGED <<response, options, str, opts, candidates, ci, result, outcome,
                   repaired, boundaries, history, routeVars, moreVars>>

NextUnwrap == UnwrapStep

\* a step of the loop, whatever it computes: the loop ends or a descent is
\* recorded.  Every UnwrapStep is one, and so is no other step.
LoopStep ==
    /\ pc = "unwrap"
    /\ \/ pc' = "done" /\ trace' = trace
       \/ pc' = "unwrap" /\ trace' = Append(trace, "descend")

\* the loop is synchronous code: while it stands at its condition it takes
\* its next step
SpecUnwrap == InitUnwrap /\ [][NextUnwrap]_vars /\ WF_<<pc, trace>>(LoopStep)

(***************************************************************************)
(* parseLLMJson as a function of its two arguments: what a call made on    *)
(* its own returns or throws, the strategies composed in the order of the  *)
(* code.                                                                   *)
(***************************************************************************)
Returned(v) == [outcome |-> "returned", result |-> v]

Threw == [outcome |-> "threw", result |-> NoResult]

\* if (result.success) return unwrapResponse(result.data), else otherwise
UnwrapOr(r, o, otherwise) ==
    IF r.success THEN Returned(unwrapResponse(r.data, o, r.cache).value) ELSE otherwise

RECURSIVE FromCandidates(_, _, _, _, _)

\* lines 350-366: the aggressive extraction and the failure record
FromAggressive(aggressiveJson, o, cache) ==
    IF o.attemptFix /\ aggressiveJson.found
    THEN UnwrapOr(tryParseJson(aggressiveJson.text, o, cache), o, Returned(FailureRecord))
    ELSE Returned(FailureRecord)

\* lines 343-348: r is tryParseJson(candidates[k])
FromCandidate(r, cands, k, s, o) ==
    UnwrapOr(r, o, FromCandidates(cands, k + 1, s, o, r.cache))

\* lines 343-359: the for loop from the k-th candidate on
FromCandidates(cands, k, s, o, cache) ==
    IF k > Len(cands)
    THEN FromAggressive(findJsonBoundaries(s, o.allowPartial), o, cache)
    ELSE FromCandidate(tryParseJson(cands[k], o, cache), cands, k, s, o)

\* lines 329-340: r is tryParseJson(str)
FromDirect(r, s, o) ==
    UnwrapOr(r, o,
             IF extractJsonThrows(s, o) THEN Threw
             ELSE FromCandidates(SortByLengthDesc(extractJson(s, o)), 1, s, o, r.cache))

\* lines 272-334: f is what the fast path yielded
FromFastPath(f, s, o) ==
    IF f.ok THEN Returned(f.v) ELSE FromDirect(tryParseJson(s, o, {}), s, o)

\* lines 20-37: n is the normalised response
FromInput(n, o) ==
    IF n.status = "ok" THEN FromFastPath(FastPath(n.str), n.str, o) ELSE Returned(JNull)

\* parseLLMJson(response, options)
parseLLMJson(r, o) == FromInput(NormalizeInput(r), NormalizeOptions(o))

\* the call that has returned or thrown did what parseLLMJson does
CallAgrees ==
    pc = "done" => [outcome |-> outcome, result |-> result] = parseLLMJson(response, options)

(***************************************************************************)
(* Calls of parseLLMJson one after the other.  The function is synchronous *)
(* (it awaits nothing), so the calls a host makes never overlap: each runs *)
(* to its return before the next begins.                                   *)
(***************************************************************************)
\* the number of calls, at most
MaxParserCalls == 2

\* {"name": "Jo
TruncatedText == <<"{","\"","n","a","m","e","\"",":"," ","\"","J","o">>

\* {'a': 1, 'b': True, }
PythonText ==
    <<"{","'","a","'",":"," ","1",","," ","'","b","'",":"," ","T","r","u","e",","," ","}">>

\* This is not valid JSON {broken
BrokenText ==
    <<"T","h","i","s"," ","i","s"," ","n","o","t"," ","v","a","l","i","d"," ","J","S","O","N",
      " ","{","b","r","o","k","e","n">>

\* a json-labelled fenced block around {bad}
FencedBadText ==
    <<"<BACKTICK>","<BACKTICK>","<BACKTICK>","j","s","o","n","\n","{","b","a","d","}","\n",
      "<BACKTICK>","<BACKTICK>","<BACKTICK>">>

\* {"response":{"a":1}}
EnvelopeText ==
    <<"{","\"","r","e","s","p","o","n","s","e","\"",":","{","\"","a","\"",":","1","}","}">>

CallResponses ==
    {StringResponse(s) : s \in {TruncatedText, PythonText, BrokenText, FencedBadText,
                                EnvelopeText}}
        \cup {[kind |-> "undefined", str |-> <<>>]}

\* no options, and the objects that set allowPartial
CallOptions ==
    {[kind |-> "undefined", has |-> {}, attemptFix |-> TRUE, maxBlocks |-> NumberValue(0),
      preferFirst |-> TRUE, allowPartial |-> FALSE]}
        \cup {PartialOptions(b) : b \in BOOLEAN}

\* no call has been made
InitCalls ==
    /\ response = [kind |-> "undefined", str |-> <<>>]
    /\ options = PartialOptions(FALSE)
    /\ pc = "idle"
    /\ str = <<>>
    /\ opts = DefaultOptions
    /\ jsonCache = {}
    /\ candidates = <<>>
    /\ ci = 1
    /\ result = NoResult
    /\ outcome = "running"
    /\ trace = <<>>
    /\ repaired = <<>>
    /\ OthersIdle

\* line 3: parseLLMJson(response, options) is called.  The locals of the
\* call before are out of reach; str, opts and jsonCache are assigned at
\* lines 8-40 before anything reads them.
Call ==
    /\ pc = "idle"
    /\ Len(history) < MaxParserCalls
    /\ response' \in CallResponses
    /\ options' \in CallOptions
    /\ pc' = "start"
    /\ candidates' = <<>>
    /\ ci' = 1
    /\ result' = NoResult
    /\ outcome' = "running"
    /\ trace' = <<>>
    /\ UNCHANGED <<str, opts, jsonCache, repaired, others>>

\* the caller has the value the call returned, or its exception
Complete ==
    /\ pc = "done"
    /\ history' = Append(history, [response |-> response, options |-> options,
                                   outcome |-> outcome, result |-> result,
                                   trace |-> trace])
    /\ pc' = "idle"
    /\ UNCHANGED <<response, options, str, opts, jsonCache, candidates, ci, result,
                   outcome, trace, repaired, boundaries, unwrapped, routeVars, moreVars>>

NextCalls ==
    \/ Call
    \/ Next
    \/ Complete

SpecCalls == InitCalls /\ [][NextCalls]_vars

(***************************************************************************)
(* POST /api/agent.  The route validates the request, calls the upstream   *)
(* agent API and tries five strategies to make an object of the response   *)
(* string; parseLLMJson is called for the third and the fifth, and runs as *)
(* the actions above while the route waits at "advanced" or "lastresort".  *)
(* A field of a request body, of the upstream data or of a reply is a JSON *)
(* value or Undefined.  The timestamp of a reply is left out.              *)
(***************************************************************************)
\* the truthiness of a value that may be undefined
JsTruthy(v) == v.t # "undefined" /\ Truthy(v)

\* v && typeof v === 'object'
IsTruthyObject(v) == JsTruthy(v) /\ IsObjectType(v)

\* cleaned.replace(/\\n/g, '\n') and its like: a backslash followed by the
\* letter becomes the control character
UnescapeLiteral(s, letter, control) ==
    ReplaceAll(s,
        [i \in 1..Len(s) |-> IF At(s, i, <<"\\", letter>>) THEN i + 2 ELSE 0],
        [i \in 1..Len(s) |-> <<control>>])

\* the position after an optional json or JSON at position i
SkipLabel(s, i) ==
    IF At(s, i, <<"j","s","o","n">>) \/ At(s, i, <<"J","S","O","N">>) THEN i + 4 ELSE i

\* does ^ match at position i under /m
LineStart(s, i) == i = 1 \/ s[i - 1] \in LineTerminators

\* does $ match at position i under /m
LineEnd(s, i) == i > Len(s) \/ s[i] \in LineTerminators

\* cleaned.replace(/^```(?:json|JSON)?\s*\n?/gm, '')
StripOpeningFences(s) ==
    ReplaceAll(s,
        [i \in 1..Len(s) |->
            IF LineStart(s, i) /\ At(s, i, Fence)
            THEN SkipClass(s, SkipLabel(s, i + 3), WhiteSpace)
            ELSE 0],
        [i \in 1..Len(s) |-> <<>>])

\* where \s*$ ends when it starts at position i: after the whole run of
\* whitespace if that reaches the end of the string, or else before the
\* last line terminator of the run; 0 if the run holds none
TrailingSpaceEnd(s, i) ==
    LET e == SkipClass(s, i, WhiteSpace)
    IN  IF e > Len(s) THEN e
        ELSE IF \E k \in i..(e - 1) : s[k] \in LineTerminators
             THEN CHOOSE k \in i..(e - 1) :
                      /\ s[k] \in LineTerminators
                      /\ \A m \in (k + 1)..(e - 1) : s[m] \notin LineTerminators
        ELSE 0

\* where a match of /\n?```\s*$/ that starts at position i ends, or 0
ClosingFenceEnd(s, i) ==
    IF At(s, i, <<"\n">> \o Fence) THEN TrailingSpaceEnd(s, i + 4)
    ELSE IF At(s, i, Fence) THEN TrailingSpaceEnd(s, i + 3)
    ELSE 0

\* cleaned.replace(/\n?```\s*$/gm, '')
StripClosingFences(s) ==
    ReplaceAll(s,
        [i \in 1..Len(s) |-> ClosingFenceEnd(s, i)],
        [i \in 1..Len(s) |-> <<>>])

\* lines 100-112: strategy 1
Clean(s) ==
    Trim(StripClosingFences(StripOpeningFences(
        UnescapeLiteral(UnescapeLiteral(UnescapeLiteral(s, "n", "\n"), "r", "\r"),
                        "t", "\t"))))

\* the last position of s that holds the character c, or 0
LastIndexOf(s, c) ==
    IF \E k \in 1..Len(s) : s[k] = c
    THEN CHOOSE k \in 1..Len(s) : s[k] = c /\ \A m \in (k + 1)..Len(s) : s[m] # c
    ELSE 0

\* can /\{[\s\S]*\}|\[[\s\S]*\]/ match from position i
GreedyStart(s, i) ==
    \/ s[i] = "{" /\ LastIndexOf(s, "}") > i
    \/ s[i] = "[" /\ LastIndexOf(s, "]") > i

\* cleaned.match(/\{[\s\S]*\}|\[[\s\S]*\]/): the leftmost opener that has a
\* closer of its kind after it, up to the last such closer
GreedyMatch(s) ==
    IF \E i \in 1..Len(s) : GreedyStart(s, i)
    THEN LET i == CHOOSE k \in 1..Len(s) :
                      GreedyStart(s, k) /\ \A m \in 1..(k - 1) : ~GreedyStart(s, m)
         IN  Span(Sub(s, i, LastIndexOf(s, IF s[i] = "{" THEN "}" ELSE "]")))
    ELSE NoSpan

\* lines 124-129: the options of strategy 3
AdvancedOptions ==
    [kind |-> "object", has |-> {"attemptFix", "maxBlocks", "preferFirst", "allowPartial"},
     attemptFix |-> TRUE, maxBlocks |-> NumberValue(DefaultMaxBlocks), preferFirst |-> TRUE,
     allowPartial |-> FALSE]

\* line 146: { attemptFix: true }
LastResortOptions ==
    [kind |-> "object", has |-> {"attemptFix"}, attemptFix |-> TRUE,
     maxBlocks |-> NumberValue(0), preferFirst |-> TRUE, allowPartial |-> FALSE]

\* `user-${Date.now()}` and `session-${Date.now()}`
GeneratedUserId == JStr(<<"u","s","e","r","-","<now>">>)

GeneratedSessionId == JStr(<<"s","e","s","s","i","o","n","-","<now>">>)

ErrNoKey == "LYZR_API_KEY not configured in .env.local"

ErrMissingFields == "Missing required fields: message and agent_id are required"

ErrUpstreamStatus == "API returned status ${response.status}"

ErrInternal == "Internal server error"

\* the request bodies: one that is not JSON, null, and the objects whose
\* message and agent_id are absent, empty or given and whose user_id and
\* session_id are absent or given
RequestBody(m, a, u, s) ==
    [kind |-> "object", message |-> m, agent_id |-> a, user_id |-> u, session_id |-> s]

Requests ==
    {[kind |-> "invalid"], [kind |-> "null"]}
        \cup {RequestBody(m, a, u, s) :
                 m \in {Undefined, JStr(<<>>), JStr(<<"H","e","l","l","o"," ","A","I">>)},
                 a \in {Undefined, JStr(<<>>), JStr(<<"t","e","s","t","-","a","g","e","n","t">>)},
                 u \in {Undefined, JStr(<<"u","1">>)},
                 s \in {Undefined, JStr(<<"s","1">>)}}

\* Hello there
PlainText == <<"H","e","l","l","o"," ","t","h","e","r","e">>

\* {"a":1}
ObjectText == <<"{","\"","a","\"",":","1","}">>

\* {\n"a":1} with a backslash and an n for the line break
EscapedText == <<"{","\\","n","\"","a","\"",":","1","}">>

\* x {"response": "5"}: an envelope around the text of a number, in prose
ProseEnvelopeText ==
    <<"x"," ","{","\"","r","e","s","p","o","n","s","e","\"",":"," ","\"","5","\"","}">>

\* {'response': '5'}: the same envelope in single quotes
QuotedEnvelopeText ==
    <<"{","'","r","e","s","p","o","n","s","e","'",":"," ","'","5","'","}">>

\* the response strings of the upstream agent
RouteTexts ==
    { BrokenText, PlainText, ObjectText, EscapedText, PythonText, EnvelopeText,
      Fence \o <<"j","s","o","n","\n">> \o ObjectText \o <<"\n">> \o Fence,
      ProseEnvelopeText, QuotedEnvelopeText,
      <<"s","e","e"," ","{","b","a","d"," ","j","s","o","n"," ","h","e","r","e","}">>,
      Fence,
      <<"4","2">> }

\* the data of an upstream reply whose response field is r
UpstreamData(r) ==
    [response   |-> r,
     agent_id   |-> JStr(<<"t","e","s","t","-","a","g","e","n","t">>),
     user_id    |-> JStr(<<"u","s","e","r","-","1","2","3">>),
     session_id |-> JStr(<<"s","e","s","s","i","o","n","-","4","5","6">>)]

\* what a call of the upstream API can come to: fetch rejects, the reply is
\* not ok, its body is not JSON, or it is ok with a response that is a
\* string, an object, null or absent
UpstreamOutcomes ==
    {[kind |-> "rejected", ok |-> FALSE, status |-> 0, data |-> UpstreamData(Undefined)],
     [kind |-> "notjson", ok |-> TRUE, status |-> 200, data |-> UpstreamData(Undefined)],
     [kind |-> "reply", ok |-> FALSE, status |-> 500, data |-> UpstreamData(Undefined)]}
        \cup {[kind |-> "reply", ok |-> TRUE, status |-> 200, data |-> UpstreamData(r)] :
                 r \in {JStr(s) : s \in RouteTexts}
                          \cup {JObj(<< <<"a">> >>, <<JNum(<<"1">>)>>), JNull, Undefined}}

\* a request has arrived
InitRoute ==
    /\ apiKey \in BOOLEAN
    /\ request \in Requests
    /\ upstream = [kind |-> "none"]
    /\ rpc = "received"
    /\ cleaned = <<>>
    /\ parsedResponse = Undefined
    /\ fetched = <<>>
    /\ reply = NoReply
    /\ response = [kind |-> "undefined", str |-> <<>>]
    /\ options = PartialOptions(FALSE)
    /\ pc = "idle"
    /\ str = <<>>
    /\ opts = DefaultOptions
    /\ jsonCache = {}
    /\ candidates = <<>>
    /\ ci = 1
    /\ result = NoResult
    /\ outcome = "running"
    /\ trace = <<>>
    /\ repaired = <<>>
    /\ PiecesIdle
    /\ MoreIdle

\* NextResponse.json({success: false, error}, {status})
RespondError(status, error) ==
    /\ reply' = [NoReply EXCEPT !.status = status, !.error = error]
    /\ rpc' = "responded"

\* lines 169-177: NextResponse.json({success: true, response: parsedResponse,
\* raw_response: data.response, agent_id, user_id, session_id}), the last
\* three being the fields of the request body
RespondSuccess(parsed, data) ==
    /\ parsedResponse' = parsed
    /\ reply' = [status |-> 200, success |-> TRUE, error |-> "", response |-> parsed,
                 raw_response |-> data.response,
                 agent_id |-> request.agent_id, user_id |-> request.user_id,
                 session_id |-> request.session_id]
    /\ rpc' = "responded"

\* parseLLMJson(s, o) is called; the route goes on at next when it is done
CallParser(s, o, next) ==
    /\ response' = StringResponse(s)
    /\ options' = o
    /\ pc' = "start"
    /\ candidates' = <<>>
    /\ ci' = 1
    /\ result' = NoResult
    /\ outcome' = "running"
    /\ trace' = <<>>
    /\ rpc' = next
    /\ UNCHANGED <<str, opts, jsonCache>>

\* the parser is not called
NoParserCall ==
    UNCHANGED <<response, options, pc, str, opts, jsonCache, candidates, ci, result,
                outcome, trace>>

\* a plausible bug: only the message is required
MissingMessage(body) == ~JsTruthy(body.message)

\* line 66: !message || !agent_id
MissingRequired(body) == ~JsTruthy(body.message) \/ ~JsTruthy(body.agent_id)

\* lines 49-74: the key is checked, the body is read and validated.  A body
\* that is not JSON makes request.json() throw and a null body makes the
\* destructuring throw: the catch at line 189 answers both.
Receive ==
    /\ rpc = "received"
    /\ IF ~apiKey THEN RespondError(500, ErrNoKey)
       ELSE IF request.kind # "object" THEN RespondError(500, ErrInternal)
       ELSE IF MissingRequired(request) THEN RespondError(400, ErrMissingFields)
       ELSE rpc' = "fetch" /\ UNCHANGED reply
    /\ NoParserCall
    /\ UNCHANGED <<apiKey, request, upstream, cleaned, parsedResponse, fetched, repaired,
                   boundaries, unwrapped, history, moreVars>>

\* lines 83-88: the body of the upstream request
UpstreamBody ==
    [user_id    |-> IF JsTruthy(request.user_id) THEN request.user_id ELSE GeneratedUserId,
     agent_id   |-> request.agent_id,
     session_id |-> IF JsTruthy(request.session_id)
                    THEN request.session_id ELSE GeneratedSessionId,
     message    |-> request.message]

\* lines 114-129: strategy 2 on the cleaned string cl, directParse being
\* JSON.parse(cl), and the call of strategy 3 when that throws
DirectParse(cl, directParse, data) ==
    /\ cleaned' = cl
    /\ IF directParse.ok
       THEN /\ RespondSuccess(IF IsTruthyObject(directParse.v) THEN directParse.v
                              ELSE data.response, data)
            /\ NoParserCall
       ELSE /\ CallParser(cl, AdvancedOptions, "advanced")
            /\ parsedResponse' = data.response
            /\ UNCHANGED reply

\* lines 77-167, 178-199: fetch is called and u is what it came to.  A fetch
\* that rejects and a reply whose body is not JSON are answered by the catch
\* at line 189; a string response goes through strategies 1 and 2.
CallUpstream ==
    /\ rpc = "fetch"
    /\ fetched' = Append(fetched, UpstreamBody)
    /\ \E u \in UpstreamOutcomes :
          /\ upstream' = u
          /\ IF u.kind # "reply"
             THEN RespondError(500, ErrInternal)
                    /\ NoParserCall /\ UNCHANGED <<cleaned, parsedResponse>>
             ELSE IF ~u.ok
             THEN RespondError(u.status, ErrUpstreamStatus)
                    /\ NoParserCall /\ UNCHANGED <<cleaned, parsedResponse>>
             ELSE IF u.data.response.t = "str"
             THEN DirectParse(Clean(u.data.response.s), JSONparse(Clean(u.data.response.s)),
                              u.data)
             ELSE /\ RespondSuccess(u.data.response, u.data)
                  /\ NoParserCall
                  /\ UNCHANGED cleaned
    /\ UNCHANGED <<apiKey, request, repaired, boundaries, unwrapped, history, moreVars>>

\* lines 136-157: strategy 4 on the match jsonMatch, extracted being
\* JSON.parse(jsonMatch[0]), and the call of strategy 5 when that throws
ExtractAnywhere(jsonMatch, extracted) ==
    IF ~jsonMatch.found
    THEN /\ RespondSuccess(parsedResponse, upstream.data)
         /\ pc' = "idle"
         /\ UNCHANGED <<response, options, candidates, ci, result, outcome, trace>>
    ELSE IF extracted.ok
    THEN /\ RespondSuccess(IF IsTruthyObject(extracted.v) THEN extracted.v
                           ELSE parsedResponse, upstream.data)
         /\ pc' = "idle"
         /\ UNCHANGED <<response, options, candidates, ci, result, outcome, trace>>
    ELSE /\ CallParser(jsonMatch.text, LastResortOptions, "lastresort")
         /\ UNCHANGED <<parsedResponse, reply>>

\* ParseSpan for the route's match
ParseMatched(jsonMatch) == IF jsonMatch.found THEN JSONparse(jsonMatch.text) ELSE PFail

\* lines 131-162: parseLLMJson has returned to strategy 3, or thrown into
\* the catch at line 159
AfterAdvanced ==
    /\ rpc = "advanced"
    /\ pc = "done"
    /\ IF outcome = "threw" \/ IsTruthyObject(result)
       THEN /\ RespondSuccess(IF outcome = "threw" THEN parsedResponse ELSE result,
                              upstream.data)
            /\ pc' = "idle"
            /\ UNCHANGED <<response, options, candidates, ci, result, outcome, trace>>
       ELSE ExtractAnywhere(GreedyMatch(cleaned), ParseMatched(GreedyMatch(cleaned)))
    /\ UNCHANGED <<str, opts, jsonCache, repaired, apiKey, request, upstream, cleaned,
                   fetched, boundaries, unwrapped, history, moreVars>>

\* lines 146-152, 159-162: parseLLMJson has returned to strategy 5, or thrown
AfterLastResort ==
    /\ rpc = "lastresort"
    /\ pc = "done"
    /\ RespondSuccess(IF outcome = "returned" /\ IsTruthyObject(result)
                      THEN result ELSE parsedResponse, upstream.data)
    /\ pc' = "idle"
    /\ UNCHANGED <<response, options, str, opts, jsonCache, candidates, ci, result,
                   outcome, trace, repaired, apiKey, request, upstream, cleaned, fetched,
                   boundaries, unwrapped, history, moreVars>>

NextRoute ==
    \/ Receive
    \/ CallUpstream
    \/ Next
    \/ AfterAdvanced
    \/ AfterLastResort

SpecRoute == InitRoute /\ [][NextRoute]_vars

(***************************************************************************)
(* The Parse Pipeline on its own: tryParseJson is called once on a         *)
(* candidate string, under each setting of attemptFix and allowPartial.    *)
(***************************************************************************)
\* the candidate strings handed to tryParseJson
PipelineInputs == ValidJsonTexts \cup EmbeddedTexts \cup OtherTexts \cup BlankTexts

\* the options tryParseJson closes over
PipelineOptions(fix, partial) ==
    [DefaultOptions EXCEPT !.attemptFix = fix, !.allowPartial = partial]

InitPipeline ==
    /\ \E s \in PipelineInputs, fix \in BOOLEAN, partial \in BOOLEAN :
          /\ str = s
          /\ opts = PipelineOptions(fix, partial)
          /\ response = StringResponse(s)
    /\ options = [kind |-> "undefined"]
    /\ pc = "pipeline"
    /\ jsonCache = {}
    /\ candidates = <<>>
    /\ ci = 1
    /\ result = NoResult
    /\ outcome = "running"
    /\ trace = <<>>
    /\ repaired = <<>>
    /\ PiecesIdle
    /\ RouteIdle
    /\ MoreIdle

\* lines 218-270: one call of tryParseJson
CallPipeline ==
    /\ pc = "pipeline"
    /\ pipeline' = tryParseJson(str, opts, jsonCache)
    /\ pc' = "done"
    /\ UNCHANGED <<response, options, str, opts, jsonCache, candidates, ci, result,
                   outcome, trace, repaired, boundaries, unwrapped, history, routeVars,
                   blocks, hubVars>>

NextPipeline == CallPipeline

SpecPipeline == InitPipeline /\ [][NextPipeline]_vars

(***************************************************************************)
(* The Candidate Extractor on its own: extractJson is called once on a     *)
(* text, under each maxBlocks from 0 on and each setting of preferFirst.   *)
(***************************************************************************)
\* the largest maxBlocks tried
MaxBlocksTried == 3

\* the texts handed to extractJson
ExtractInputs == FencedTexts \cup EmbeddedTexts \cup OtherTexts

\* the options extractJson closes over
ExtractOptions(n, first) ==
    [DefaultOptions EXCEPT !.maxBlocks = NumberValue(n), !.preferFirst = first]

InitExtract ==
    /\ \E s \in ExtractInputs, n \in 0..MaxBlocksTried, first \in BOOLEAN :
          /\ str = s
          /\ opts = ExtractOptions(n, first)
          /\ response = StringResponse(s)
    /\ options = [kind |-> "undefined"]
    /\ pc = "extractJson"
    /\ jsonCache = {}
    /\ candidates = <<>>
    /\ ci = 1
    /\ result = NoResult
    /\ outcome = "running"
    /\ trace = <<>>
    /\ repaired = <<>>
    /\ PiecesIdle
    /\ RouteIdle
    /\ MoreIdle

\* lines 107-163: one call of extractJson
CallExtract ==
    /\ pc = "extractJson"
    /\ blocks' = extractJson(str, opts)
    /\ pc' = "done"
    /\ UNCHANGED <<response, options, str, opts, jsonCache, candidates, ci, result,
                   outcome, trace, repaired, boundaries, unwrapped, history, routeVars,
                   pipeline, hubVars>>

NextExtract == CallExtract

SpecExtract == InitExtract /\ [][NextExtract]_vars

(***************************************************************************)
(* The OnboardingHub component.  A candidate is [id, status, progress] and *)
(* a task [id, candidateId]: the fields no handler reads or changes are    *)
(* left out.  A handler closes over the candidates and tasks of the render *)
(* it was created in; a handler that awaits callAgent is in flight between *)
(* its call and its continuation, and other events are handled meanwhile.  *)
(***************************************************************************)
\* how many ids Math.random() hands out, how many calls of callAgent are
\* made, how many tasks one agent result holds
MaxIds == 2
MaxAgentCalls == 2
MaxNewTasks == 1

\* the n-th id Math.random().toString() yields: none is the id of a seeded
\* candidate or task
RandomId(n) == 100 + n

Candidate(id, status, progress) == [id |-> id, status |-> status, progress |-> progress]

\* lines 728-749 and 750-771: the initial state of candidates and of tasks
SeededCandidates == <<Candidate(1, "documents_received", 65), Candidate(2, "welcome_sent", 40)>>

SeededTasks == <<[id |-> 1, candidateId |-> 1], [id |-> 2, candidateId |-> 1]>>

\* list.map(c => c.id === candidateId ? {...c, status, progress} : c)
MapCandidate(list, candidateId, status, progress) ==
    [k \in 1..Len(list) |->
        IF list[k].id = candidateId THEN Candidate(candidateId, status, progress)
        ELSE list[k]]

\* list.find(c => c.id === candidateId) is defined
HasCandidate(list, candidateId) == \E k \in 1..Len(list) : list[k].id = candidateId

\* a call of callAgent that has not returned, with what the handler that
\* made it closes over
AgentCall(kind, candidateId) ==
    [kind |-> kind, candidateId |-> candidateId, candidates |-> hubCandidates,
     tasks |-> tasks]

\* the functional update the code does not make: the list of the latest
\* render is mapped
LatestCandidates(call) == hubCandidates

\* line 799: candidates is the list of the render handleInitiate was created in
CapturedCandidates(call) == call.candidates

\* the parser and the route are not running
HubAlone ==
    /\ response = [kind |-> "undefined", str |-> <<>>]
    /\ options = [kind |-> "undefined"]
    /\ pc = "hub"
    /\ str = <<>>
    /\ opts = DefaultOptions
    /\ jsonCache = {}
    /\ candidates = <<>>
    /\ ci = 1
    /\ result = NoResult
    /\ outcome = "running"
    /\ trace = <<>>
    /\ repaired = <<>>
    /\ PiecesIdle
    /\ RouteIdle
    /\ pipeline = NoPipeline
    /\ blocks = <<>>

\* what the handlers of the component leave alone
notHub == <<response, options, pc, str, opts, jsonCache, candidates, ci, result,
            outcome, trace, repaired, boundaries, unwrapped, history, routeVars,
            pipeline, blocks>>

\* lines 726-771: the first render
InitHub ==
    /\ HubAlone
    /\ hubCandidates = SeededCandidates
    /\ tasks = SeededTasks
    /\ inflight = {}
    /\ nextId = 0
    /\ currentTab = "dashboard"
    /\ onboarded = {}
    /\ agentCalls = 0

\* lines 848-871: setCurrentTab(item.id)
SwitchTab ==
    /\ \E tab \in {"dashboard", "tasks"} :
          /\ tab # currentTab
          /\ currentTab' = tab
    /\ UNCHANGED <<hubCandidates, tasks, inflight, nextId, onboarded, agentCalls>>
    /\ UNCHANGED notHub

\* lines 773-781, called by the form of the Dashboard (lines 78-85)
handleNewOnboarding ==
    /\ currentTab = "dashboard"
    /\ nextId < MaxIds
    /\ hubCandidates' = Append(hubCandidates, Candidate(RandomId(nextId + 1), "pending", 0))
    /\ onboarded' = onboarded \cup {RandomId(nextId + 1)}
    /\ nextId' = nextId + 1
    /\ UNCHANGED <<tasks, inflight, currentTab, agentCalls>>
    /\ UNCHANGED notHub

\* lines 783-796: handleInitiate up to its await; the Dashboard shows the
\* button for the pending candidates (lines 167-171)
InitiateCalls ==
    /\ currentTab = "dashboard"
    /\ agentCalls < MaxAgentCalls
    /\ agentCalls' = agentCalls + 1
    /\ \E k \in 1..Len(hubCandidates) :
          /\ hubCandidates[k].status = "pending"
          /\ HasCandidate(hubCandidates, hubCandidates[k].id)
          /\ inflight' = inflight \cup {AgentCall("initiate", hubCandidates[k].id)}
    /\ UNCHANGED <<hubCandidates, tasks, nextId, currentTab, onboarded>>
    /\ UNCHANGED notHub

\* lines 798-804: handleInitiate after its await; emailSent is
\* result?.result?.email_sent
InitiateReturns ==
    /\ \E call \in inflight, emailSent \in BOOLEAN :
          /\ call.kind = "initiate"
          /\ inflight' = inflight \ {call}
          /\ hubCandidates' =
                IF emailSent
                THEN MapCandidate(CapturedCandidates(call), call.candidateId, "welcome_sent", 25)
                ELSE hubCandidates
    /\ UNCHANGED <<tasks, nextId, currentTab, onboarded, agentCalls>>
    /\ UNCHANGED notHub

\* lines 470-489: handleGenerateTasks of TaskManagement up to its await, for
\* the candidate selected; the onGenerateTasks it will call is that of this
\* render
GenerateCalls ==
    /\ currentTab = "tasks"
    /\ agentCalls < MaxAgentCalls
    /\ agentCalls' = agentCalls + 1
    /\ \E k \in 1..Len(hubCandidates) :
          inflight' = inflight \cup {AgentCall("generate", hubCandidates[k].id)}
    /\ UNCHANGED <<hubCandidates, tasks, nextId, currentTab, onboarded>>
    /\ UNCHANGED notHub

\* the tasks handleGenerateTasks makes of a result that holds n of them
NewTasks(candidateId, n) ==
    [k \in 1..n |-> [id |-> RandomId(nextId + k), candidateId |-> candidateId]]

\* lines 491-494 and 807-830: the call returns; with tasks_by_department in
\* the result handleGenerateTasks of the hub is called, n tasks in the result
GenerateReturns ==
    /\ \E call \in inflight, byDepartment \in BOOLEAN, n \in 0..MaxNewTasks :
          /\ call.kind = "generate"
          /\ nextId + n <= MaxIds
          /\ inflight' = inflight \ {call}
          /\ IF byDepartment
             THEN /\ hubCandidates' =
                        MapCandidate(call.candidates, call.candidateId, "tasks_assigned", 60)
                  /\ tasks' = call.tasks \o NewTasks(call.candidateId, n)
                  /\ nextId' = nextId + n
             ELSE /\ n = 0
                  /\ UNCHANGED <<hubCandidates, tasks, nextId>>
    /\ UNCHANGED <<currentTab, onboarded, agentCalls>>
    /\ UNCHANGED notHub

NextHub ==
    \/ SwitchTab
    \/ handleNewOnboarding
    \/ InitiateCalls
    \/ InitiateReturns
    \/ GenerateCalls
    \/ GenerateReturns

SpecHub == InitHub /\ [][NextHub]_vars

(***************************************************************************)
(* What the claims speak of.                                               *)
(***************************************************************************)
\* the call has returned or thrown
Done == pc = "done"

\* the response reached the strategies: it is a non-blank string
HasInput == NormalizeInput(response).status = "ok"

\* the response is a string of strictly valid JSON
ValidInput == response.kind = "string" /\ JSONparse(response.str).ok

\* JSON.parse(response)
StrictParse == JSONparse(response.str).v

\* v is an object with a truthy response field
HasTruthyResponse(v) == HasKey(v, RESPONSE) /\ Truthy(Member(v, RESPONSE))

\* every strategy fails on the string s under the options o: the fast path,
\* the Parse Pipeline on s, on every candidate and on the last-resort span
EveryStrategyFails(s, o) ==
    LET cands == SortByLengthDesc(extractJson(s, o))
        span  == findJsonBoundaries(s, o.allowPartial)
    IN  /\ ~FastPath(s).ok
        /\ ~tryParseJson(s, o, {}).success
        /\ \A k \in 1..Len(cands) : ~tryParseJson(cands[k], o, {}).success
        /\ ~(o.attemptFix /\ span.found /\ tryParseJson(span.text, o, {}).success)

\* the call returned after every strategy failed
TotalFailure ==
    Done /\ outcome = "returned" /\ HasInput /\ EveryStrategyFails(str, opts)

\* the response is the fenced block open, text of v, close
IsFenced(open, v, close) == response = StringResponse(Fenced(open, v, close))

\* the response is the two objects, in this order, in prose
IsEmbedded(first, second) == response = StringResponse(Embedded(first, second))

(***************************************************************************)
(* C1.  Strictly valid JSON text.                                          *)
(***************************************************************************)
\* C1 (as claimed): for a response that is strictly valid JSON text the call
\* returns the value JSON.parse gives, under every option, also when that
\* value is an object with a truthy response field.
C1_ValidJsonIsReturnedAsParsed ==
    (Done /\ ValidInput) => (outcome = "returned" /\ result = StrictParse)

\* C1 (amended): for a response that is strictly valid JSON text the call
\* returns, under every option, what the Result Unwrapper makes of the value
\* JSON.parse gives.  That is the parsed value itself whenever it is not an
\* object with a truthy response field, and it is another value, found
\* inside the field, whenever the field holds an object or an array.
C1_ValidJsonIsReturnedUnwrapped ==
    (Done /\ ValidInput) =>
        /\ outcome = "returned"
        /\ result = unwrapResponse(StrictParse, opts, {}).value
        /\ ~HasTruthyResponse(StrictParse) => result = StrictParse
        /\ (HasKey(StrictParse, RESPONSE) /\ IsObjectType(Member(StrictParse, RESPONSE)))
               => result # StrictParse

\* C1 witness: valid JSON whose response field is falsy beside another field
\* came back as parsed
C1_Witness ==
    /\ Done
    /\ ValidInput
    /\ HasKey(StrictParse, RESPONSE)
    /\ ~Truthy(Member(StrictParse, RESPONSE))
    /\ Len(StrictParse.keys) = 2
    /\ result = StrictParse

(***************************************************************************)
(* C2.  One json-labelled fenced block around valid JSON.                  *)
(***************************************************************************)
\* C2 (as claimed): whatever the layout of the fence and whatever the
\* content, the call returns the strict parse of the fenced content.
C2_FencedIsStrictParse ==
    (Done /\ response.kind = "string" /\ At(response.str, 1, Fence)) =>
        \A open \in FenceOpens, v \in FencedValues, close \in FenceCloses :
            IsFenced(open, v, close) => result = JSONparse(Stringify(v)).v

\* C2 (amended): for a response that is one json-labelled fenced block around
\* valid JSON the call returns the strict parse of the fenced content,
\* whatever the content and the options, when the fence has the layout the
\* fast path reads: the label json in lower case, a newline after it and a
\* newline before the closing fence.  In another layout, with attemptFix on
\* and an object or an array as content, it returns what the Result Unwrapper
\* makes of that parse, which is the parse itself only when it has no truthy
\* response field.
C2_FencedByLayout ==
    (Done /\ response.kind = "string" /\ At(response.str, 1, Fence)) =>
        \A open \in FenceOpens, v \in FencedValues, close \in FenceCloses :
            IsFenced(open, v, close) =>
                LET parsed == JSONparse(Stringify(v)).v
                IN  IF open = FenceOpenFast /\ close = FenceCloseFast
                    THEN outcome = "returned" /\ result = parsed
                    ELSE (opts.attemptFix /\ IsObjectType(parsed)) =>
                            /\ outcome = "returned"
                            /\ result = unwrapResponse(parsed, opts, {}).value
                            /\ ~HasTruthyResponse(parsed) => result = parsed

\* C2 witness: an envelope in the fast-path layout came back as parsed, its
\* response field still around the payload the Result Unwrapper would find
C2_Witness ==
    /\ Done
    /\ \E v \in FencedValues :
          /\ IsFenced(FenceOpenFast, v, FenceCloseFast)
          /\ HasTruthyResponse(v)
          /\ unwrapResponse(v, opts, {}).value # v
          /\ result = v

(***************************************************************************)
(* C3.  The fast path and the Result Unwrapper.                            *)
(***************************************************************************)
\* C3: when the fast path finds a json-labelled block whose body parses
\* strictly, the call returns that parse passed through the Result Unwrapper,
\* and no later strategy runs.
C3_FastPathResultIsUnwrapped ==
    (Done /\ HasInput /\ FastPath(str).ok) =>
        /\ result = unwrapResponse(FastPath(str).v, opts, {}).value
        /\ trace = <<"fast">>

(***************************************************************************)
(* C4.  Several objects in prose and preferFirst.                          *)
(***************************************************************************)
\* C4: for a text that holds two JSON objects in prose the call returns the
\* first one with preferFirst on and the last one with preferFirst off.
C4_PreferFirstSelects ==
    (Done /\ response.kind = "string") =>
        \A a \in EmbeddedObjects : \A b \in EmbeddedObjects \ {a} :
            IsEmbedded(a, b) =>
                result = IF opts.preferFirst THEN JSONparse(a).v ELSE JSONparse(b).v

(***************************************************************************)
(* C5, C6, C7.  What total failure returns.                                *)
(***************************************************************************)
\* C5: the call returns null whenever no JSON can be recovered from the
\* response, so that the result is falsy exactly on failure.
C5_FailureReturnsNull ==
    TotalFailure => (result = JNull /\ ~Truthy(result))

\* C6: when the response is not blank and every strategy fails, the call
\* returns exactly the failure record, and never the value the Parse Pipeline
\* signals a failure with.
C6_FailureReturnsTheRecord ==
    TotalFailure =>
        /\ result = FailureRecord
        /\ result \notin {PipelineFailureValue(ErrEmpty), PipelineFailureValue(ErrAllAttempts)}

\* C6 witness: candidates were extracted, each failed, and the failure record
\* came back
C6_Witness ==
    /\ TotalFailure
    /\ Len(candidates) > 0
    /\ ci > Len(candidates)
    /\ result = FailureRecord

\* C7: no successful parse returns a value equal to the failure record.
C7_FailureRecordIsDistinguishable ==
    (Done /\ outcome = "returned" /\ HasInput /\ ~EveryStrategyFails(str, opts)) =>
        result # FailureRecord

(***************************************************************************)
(* C8, C9.  No input, and exceptions.                                      *)
(***************************************************************************)
\* the response is null or undefined, cannot be converted to a string, or is
\* empty or all whitespace once converted
NoInput ==
    \/ response.kind \in {"null", "undefined", "unconvertible"}
    \/ Trim(response.str) = <<>>

\* C8: the call returns null, not the failure record, when the response is
\* null or undefined, cannot be converted to a string, or is empty or all
\* whitespace; no strategy runs.
C8_NoInputReturnsNull ==
    (Done /\ NoInput) =>
        /\ outcome = "returned"
        /\ result = JNull
        /\ result # FailureRecord
        /\ trace = <<>>

\* C8 witness: a string of whitespace came back as null
C8_Witness ==
    /\ Done
    /\ response.kind = "string"
    /\ response.str # <<>>
    /\ Trim(response.str) = <<>>
    /\ result = JNull

\* C9: the call never throws, whatever the response and the options.
C9_NeverThrows == outcome # "threw"

(***************************************************************************)
(* C10.  The Repair Engine applied twice.                                  *)
(***************************************************************************)
\* C10: fixCommonJsonIssues is idempotent: repairing what it returned gives
\* the same string, for either value of allowPartial.
C10_RepairIsIdempotent ==
    Len(repaired) >= 2 => repaired[2] = repaired[1]

(***************************************************************************)
(* C11.  The spans of the Boundary Scanner.                                *)
(***************************************************************************)
\* the closer that ends what the opener ch begins
CloserOf(ch) == IF ch = "{" THEN "}" ELSE "]"

\* from position i on, with the openers still open in stack: every closer of
\* text outside string literals ends the last opener still open, which is of
\* its kind, and none stays open at the end.  Quotes and backslashes are
\* read as the scanner reads them.
RECURSIVE BracketsMatch(_, _, _, _)
BracketsMatch(text, i, stack, inString) ==
    IF i > Len(text) THEN stack = <<>>
    ELSE IF text[i] = "\\" THEN BracketsMatch(text, i + 2, stack, inString)
    ELSE IF text[i] = "\"" THEN BracketsMatch(text, i + 1, stack, ~inString)
    ELSE IF inString \/ text[i] \notin {"{", "[", "}", "]"}
         THEN BracketsMatch(text, i + 1, stack, inString)
    ELSE IF text[i] \in {"{", "["}
         THEN BracketsMatch(text, i + 1, <<text[i]>> \o stack, inString)
    ELSE /\ stack # <<>>
         /\ text[i] = CloserOf(Head(stack))
         /\ BracketsMatch(text, i + 1, Tail(stack), inString)

\* C11: with allowPartial false every span findJsonBoundaries returns has
\* balanced, matched brackets outside string literals: each closer ends an
\* earlier opener of its own kind inside the span, also after a stray closer
\* before the first opener and when the two kinds of bracket are mixed.
C11_SpansAreBalanced ==
    (pc = "done" /\ ~opts.allowPartial /\ boundaries.found) =>
        BracketsMatch(boundaries.text, 1, <<>>, FALSE)

(***************************************************************************)
(* C12.  The Result Unwrapper terminates.                                  *)
(***************************************************************************)
\* the value the loop stands at is an envelope still: an object whose
\* response field holds an object, or a string that parses
StillEnveloped ==
    /\ IsObjectType(unwrapped.value)
    /\ HasTruthyResponse(unwrapped.value)
    /\ \/ IsObjectType(Member(unwrapped.value, RESPONSE))
       \/ /\ Member(unwrapped.value, RESPONSE).t = "str"
          /\ JSONparse(Member(unwrapped.value, RESPONSE).s).ok

\* C12: unwrapResponse always terminates and makes at most maxAttempts (2)
\* descents, for every value: also for response fields nested deeper than
\* that and for response strings that parse to another envelope.
C12_UnwrapTerminates ==
    /\ [](Len(trace) <= MaxAttempts /\ unwrapped.attempts = Len(trace))
    /\ <>(pc = "done")

\* C12 witness: the loop ended after two descents with the value still an
\* envelope
C12_Witness ==
    /\ pc = "done"
    /\ Len(trace) = MaxAttempts
    /\ StillEnveloped

(***************************************************************************)
(* C13, C14.  A truncated object, and an object in Python notation.        *)
(***************************************************************************)
\* {name: "Jo"}
NameJo == JObj(<< <<"n","a","m","e">> >>, <<JStr(<<"J","o">>)>>)

\* C13: for the truncated input {"name": "Jo, repair being enabled as it is by
\* default, the call returns the total-failure record when allowPartial is
\* false and {name: "Jo"} when it is true, the string and the object both
\* being closed.
C13_TruncatedString ==
    (Done /\ response = StringResponse(TruncatedText) /\ opts.attemptFix) =>
        /\ outcome = "returned"
        /\ ~opts.allowPartial => result = FailureRecord
        /\ opts.allowPartial => result = NameJo

\* C13 witness: with allowPartial true the truncated input came back as
\* {name: "Jo"}, from the span of the repaired string
C13_Witness ==
    /\ Done
    /\ response = StringResponse(TruncatedText)
    /\ opts.allowPartial
    /\ result = NameJo
    /\ trace = <<"fast", "direct">>

\* {a: 1, b: true}
OneAndTrue == JObj(<< <<"a">>, <<"b">> >>, <<JNum(<<"1">>), JBool(TRUE)>>)

\* C14: under the default options the input {'a': 1, 'b': True, } returns
\* {a: 1, b: true}: the input itself is not strict JSON, the Repair Engine
\* makes strict JSON of it, and the call returns what that parses to.
C14_PythonNotationIsRepaired ==
    (Done /\ response = StringResponse(PythonText) /\ opts = DefaultOptions) =>
        /\ outcome = "returned"
        /\ result = OneAndTrue
        /\ ~JSONparse(str).ok
        /\ JSONparse(Repair(str, opts.allowPartial)).ok
        /\ JSONparse(Repair(str, opts.allowPartial)).v = result

\* C14 witness: the call, made without options, returned {a: 1, b: true}
\* from the Parse Pipeline on the whole input
C14_Witness ==
    /\ Done
    /\ response = StringResponse(PythonText)
    /\ options.kind = "undefined"
    /\ result = OneAndTrue
    /\ trace = <<"fast", "direct">>

(***************************************************************************)
(* C15, C16.  The cache and successive calls.                              *)
(***************************************************************************)
\* the call that returned last
LastCall == history[Len(history)]

\* C15: no state is shared between calls.  The cache a call works with is
\* built by that call, empty, before any strategy runs, and whatever calls
\* came before, a call returns or throws what parseLLMJson gives for its own
\* response and options alone.
C15_CallsAreIndependent ==
    /\ (pc = "fastpath") => jsonCache = {}
    /\ (pc = "idle" /\ history # <<>>) =>
           [outcome |-> LastCall.outcome, result |-> LastCall.result]
               = parseLLMJson(LastCall.response, LastCall.options)

\* C15 witness: the truncated input was parsed with allowPartial false, which
\* repairs it without closing its string, and then again with allowPartial
\* true, which gave {name: "Jo"}
C15_Witness ==
    /\ pc = "idle"
    /\ Len(history) = 2
    /\ history[1].response = StringResponse(TruncatedText)
    /\ history[1].options = PartialOptions(FALSE)
    /\ history[1].result = FailureRecord
    /\ history[2].response = StringResponse(TruncatedText)
    /\ history[2].options = PartialOptions(TRUE)
    /\ history[2].result = NameJo

\* C16: a second call with the response and options of the first is answered
\* from the cache the first call filled: it returns the same value and no
\* strategy runs again.
C16_SecondCallIsAnsweredFromCache ==
    (pc = "idle" /\ Len(history) = 2
        /\ history[2].response = history[1].response
        /\ history[2].options = history[1].options) =>
            /\ history[2].result = history[1].result
            /\ history[2].trace = <<>>

(***************************************************************************)
(* C17.  An options argument that is not an options object.                *)
(***************************************************************************)
\* {attemptFix: true, maxBlocks: 5, preferFirst: true, allowPartial: false}
ExplicitDefaults ==
    [kind |-> "object", has |-> {"attemptFix", "maxBlocks", "preferFirst", "allowPartial"},
     attemptFix |-> TRUE, maxBlocks |-> NumberValue(5), preferFirst |-> TRUE,
     allowPartial |-> FALSE]

\* C17: an options argument that is null, undefined, an array, a string or a
\* number never makes the call throw, and the call returns what it returns
\* for the same response under {attemptFix: true, maxBlocks: 5,
\* preferFirst: true, allowPartial: false}.
C17_BadOptionsAreDefaults ==
    (Done /\ options.kind # "object") =>
        /\ outcome = "returned"
        /\ parseLLMJson(response, ExplicitDefaults) = Returned(result)

\* C17 witness: with a number for options the input in Python notation came
\* back repaired
C17_Witness ==
    /\ Done
    /\ options.kind = "number"
    /\ response = StringResponse(PythonText)
    /\ result = OneAndTrue

(***************************************************************************)
(* C18, C19, C20.  POST /api/agent.                                        *)
(***************************************************************************)
\* the route has answered
Responded == rpc = "responded"

\* the upstream API answered with a reply that is ok
UpstreamOk == upstream.kind = "reply" /\ upstream.ok

\* C18: when the response string of the upstream agent holds no recoverable
\* JSON (plain text, or This is not valid JSON {broken) the route answers 200
\* with response equal to that string.
C18_UnrecoverableIsReturnedRaw ==
    (Responded /\ UpstreamOk
        /\ upstream.data.response \in {JStr(PlainText), JStr(BrokenText)}) =>
            /\ reply.status = 200
            /\ reply.response = upstream.data.response

\* the body is an object that has no message or no agent_id
LacksRequired ==
    /\ request.kind = "object"
    /\ request.message = Undefined \/ request.agent_id = Undefined

C20_IdsAreTheUpstreamIds ==
    (Responded /\ reply.success) =>
        /\ reply.agent_id = upstream.data.agent_id
        /\ reply.user_id = upstream.data.user_id
        /\ reply.session_id = upstream.data.session_id

\* what the four legs make of the candidate s, in the order a, b, c, d
Legs(s, o) ==
    LET cleanJson == Trim(s)
        fixed == fixCommonJsonIssues(cleanJson, o.allowPartial, {}).fixed
    IN  << JSONparse(cleanJson),
           ParseSpan(findJsonBoundaries(cleanJson, o.allowPartial)),
           JSONparse(fixed),
           ParseSpan(findJsonBoundaries(fixed, o.allowPartial)) >>

LegNames == <<"a", "b", "c", "d">>

\* the legs that run: a alone unless attemptFix is set
LegsRun(o) == IF o.attemptFix THEN 1..4 ELSE {1}

\* p is what the first successful leg among legs yields, a Failure if none
IsFirstSuccess(p, legs, run) ==
    LET ok == {k \in run : legs[k].ok}
    IN  IF ok = {}
        THEN ~p.success /\ p.error = ErrAllAttempts /\ p.leg = "none"
        ELSE \E k \in ok :
                /\ \A j \in ok : k <= j
                /\ p.success
                /\ p.data = legs[k].v
                /\ p.leg = LegNames[k]

\* C21: tryParseJson returns the value of the first leg that succeeds in the
\* order (a) the trimmed string, (b) the scanner span of the unrepaired
\* string, (c) the repaired string, (d) the scanner span of the repaired
\* string; legs b-d run only when attemptFix is set; no successful leg gives
\* the Failure 'Failed to parse JSON after all attempts', and an empty or
\* whitespace-only candidate the Failure 'Empty JSON string', no leg attempted.
C21_FirstSuccessfulLegWins ==
    pc = "done" =>
        IF Trim(str) = <<>>
        THEN ~pipeline.success /\ pipeline.error = ErrEmpty /\ pipeline.leg = "empty"
        ELSE IsFirstSuccess(pipeline, Legs(str, opts), LegsRun(opts))

\* a candidate that only the last leg parses
C21_Witness ==
    /\ pc = "done"
    /\ pipeline.success
    /\ pipeline.leg = "d"
    /\ ~Legs(str, opts)[1].ok /\ ~Legs(str, opts)[2].ok /\ ~Legs(str, opts)[3].ok


\* the Parse Pipeline makes a value of the candidate s
Parses(s) == tryParseJson(s, opts, {}).success

\* what is returned when the candidate s is the one that succeeds
ValueOf(s) == unwrapResponse(tryParseJson(s, opts, {}).data, opts, {}).value

\* the last strategy that ran
LastStrategy == IF trace = <<>> THEN "none" ELSE trace[Len(trace)]

\* the call returned out of the for loop, at the candidate ci
ReturnedCandidate == pc = "done" /\ LastStrategy = "candidate" /\ ci <= Len(candidates)

\* C22: after the whole-input pipeline fails, the candidates are tried in
\* order of non-increasing length and the unwrapped value of the first one
\* whose pipeline succeeds is returned: a shorter candidate is returned only
\* if every longer one failed, and the last-resort scan runs only if all
\* candidates failed and attemptFix is set.
C22_LongestCandidateFirst ==
    /\ \A i, j \in DOMAIN candidates : i < j => Len(candidates[i]) >= Len(candidates[j])
    /\ LastStrategy \in {"extract", "candidate", "aggressive"} => ~Parses(str)
    /\ pc = "candidates" => \A j \in 1..(ci - 1) : ~Parses(candidates[j])
    /\ ReturnedCandidate =>
          /\ outcome = "returned"
          /\ Parses(candidates[ci])
          /\ result = ValueOf(candidates[ci])
          /\ \A j \in 1..(ci - 1) : ~Parses(candidates[j])
    /\ LastStrategy = "aggressive" =>
          /\ opts.attemptFix
          /\ \A j \in DOMAIN candidates : ~Parses(candidates[j])

\* a shorter candidate is returned after a longer one failed
C22_Witness ==
    /\ ReturnedCandidate
    /\ ci > 1
    /\ Len(candidates[ci]) < Len(candidates[1])
    /\ result = ValueOf(candidates[ci])


\* what extractJson would return were maxBlocks out of reach
Uncapped == extractJson(str, [opts EXCEPT !.maxBlocks = NumberValue(Len(str))])

\* C23: extractJson never returns more than maxBlocks candidates, counted
\* across all four pattern classes together, whatever the text and the
\* non-negative integer maxBlocks; maxBlocks = 0 yields no candidate.
C23_AtMostMaxBlocks ==
    pc = "done" =>
        /\ Len(blocks) <= opts.maxBlocks.n
        /\ opts.maxBlocks.n = 0 => blocks = <<>>

\* the cap cuts the candidates of a text short, across pattern classes
C23_Witness ==
    /\ pc = "done"
    /\ opts.maxBlocks.n > 0
    /\ Len(blocks) = opts.maxBlocks.n
    /\ Len(Uncapped) > Len(blocks)

(***************************************************************************)
(* C24.  The steps of the Result Unwrapper.                                *)
(***************************************************************************)
\* the value unwrapResponse was called on
UnwrapData == JSONparse(str).v

\* the loop goes on from the value v, one more descent made
DescendsTo(v) ==
    /\ unwrapped'.value = v
    /\ unwrapped'.attempts = unwrapped.attempts + 1
    /\ pc' = "unwrap"

\* the loop ends, the current value unchanged
ReturnsCurrent ==
    /\ unwrapped'.value = unwrapped.value
    /\ unwrapped'.attempts = unwrapped.attempts
    /\ pc' = "done"

\* one step of the loop, as the claim has it
UnwrapperStep ==
    LET current == unwrapped.value
    IN  IF /\ unwrapped.attempts < MaxAttempts
           /\ IsObjectType(current)
           /\ HasTruthyResponse(current)
        THEN LET field == Member(current, RESPONSE)
             IN  IF field.t = "str"
                 THEN IF Parses(field.s)
                      THEN DescendsTo(tryParseJson(field.s, opts, {}).data)
                      ELSE ReturnsCurrent
                 ELSE IF IsObjectType(field) THEN DescendsTo(field)
                 ELSE ReturnsCurrent
        ELSE ReturnsCurrent

\* the number of object envelopes v is nested under: envelopes whose
\* response field holds an object
RECURSIVE ObjectEnvelopes(_)
ObjectEnvelopes(v) ==
    IF v.t = "obj" /\ HasTruthyResponse(v) /\ IsObjectType(Member(v, RESPONSE))
    THEN 1 + ObjectEnvelopes(Member(v, RESPONSE))
    ELSE 0

\* v with its n outermost envelopes taken off
RECURSIVE Inside(_, _)
Inside(v, n) == IF n = 0 THEN v ELSE Inside(Member(v, RESPONSE), n - 1)

\* under its object envelopes v holds a value that is no envelope
PlainCore(v) ==
    LET core == Inside(v, ObjectEnvelopes(v))
    IN  ~(IsObjectType(core) /\ HasTruthyResponse(core))

Min(a, b) == IF a < b THEN a ELSE b

\* C24: while fewer than maxAttempts descents were made and the current value
\* is an object with a truthy response field, a string field the Parse
\* Pipeline can parse replaces the current value by its parse, an object
\* field replaces it by the field itself, and in every other case (field
\* absent, falsy, an unparseable string, a non-string non-object) the current
\* value is returned unchanged; a value under k nested object envelopes is
\* returned after exactly min(k, 2) descents.
C24_UnwrapperSteps ==
    /\ [][UnwrapperStep]_vars
    /\ [](pc = "done" /\ PlainCore(UnwrapData) =>
             /\ unwrapped.attempts = Min(ObjectEnvelopes(UnwrapData), MaxAttempts)
             /\ unwrapped.value = Inside(UnwrapData, unwrapped.attempts))

\* a value under three object envelopes is returned after two descents, one
\* envelope still around it
C24_Witness ==
    /\ pc = "done"
    /\ PlainCore(UnwrapData)
    /\ ObjectEnvelopes(UnwrapData) = 3
    /\ unwrapped.attempts = 2
    /\ unwrapped.value = Inside(UnwrapData, 2)


(***************************************************************************)
(* C25, C26.  What the Boundary Scanner returns.                           *)
(***************************************************************************)
\* where the scan of s stands when the for loop is left
ScanOf(s) == ScanBoundaries(s, 1, 0, 0, FALSE)

\* the scan of str found an opener and ended with depth > 0
ScanEndsOpen == ScanOf(str).start # 0 /\ ScanOf(str).end = 0 /\ ScanOf(str).depth > 0

\* the last character of span is the closer at which what its first
\* character opens is ended, outside any string literal
ClosedAtItsEnd(span) ==
    /\ span[Len(span)] = CloserOf(span[1])
    /\ ScanOf(span).start = 1
    /\ ScanOf(span).end = Len(span)

\* C25: with allowPartial true, when the scan ends with depth > 0 the scanner
\* returns the substring from the first opener to the end of the text with
\* exactly one closing bracket appended, so that the span is synthetically
\* closed: the appended closer closes the open top-level structure, whether
\* it was opened by '{' or by '[', and is not swallowed by an unterminated
\* string literal.
C25_PartialSpanIsClosed ==
    (pc = "done" /\ opts.allowPartial /\ ScanEndsOpen) =>
        /\ boundaries.found
        /\ Len(boundaries.text) = Len(From(str, ScanOf(str).start)) + 1
        /\ Sub(boundaries.text, 1, Len(boundaries.text) - 1) = From(str, ScanOf(str).start)
        /\ boundaries.text[Len(boundaries.text)] \in {"}", "]"}
        /\ ClosedAtItsEnd(boundaries.text)


\* the scan of s from its first opener outside a string on, the depth
\* counted from that opener
ScanFromOpener(s) ==
    IF ScanOf(s).start = 0 THEN ScanOf(s)
    ELSE ScanBoundaries(s, ScanOf(s).start, 0, 0, FALSE)

\* C26: the scanner returns the first top-level balanced span: it starts at
\* the first '{' or '[' outside a double-quoted string and ends at the first
\* later closer at which the depth returns to zero, brackets inside strings
\* and characters after a backslash not being counted; there is no result
\* when no opener occurs outside a string and, with allowPartial false, when
\* the depth never returns to zero.
C26_FirstBalancedSpan ==
    pc = "done" =>
        LET r == ScanFromOpener(str)
        IN  /\ r.start = 0 => ~boundaries.found
            /\ (r.start # 0 /\ r.end # 0) =>
                   boundaries = Span(Sub(str, r.start, r.end))
            /\ (r.start # 0 /\ r.end = 0 /\ ~opts.allowPartial) => ~boundaries.found

(***************************************************************************)
(* C27.  preferFirst.                                                      *)
(***************************************************************************)
\* what the call returns, or that it throws
CallResult == [outcome |-> outcome, result |-> result]

\* what the call would have come to with preferFirst the other way round,
\* every other option as it is
WithOtherPreference ==
    FromInput(NormalizeInput(response), [opts EXCEPT !.preferFirst = ~opts.preferFirst])

\* C27: the result of parseLLMJson does not depend on preferFirst: for every
\* input and every setting of the other options, preferFirst true and false
\* give deep-equal results, the candidates being discovered class by class in
\* ascending priority and then sorted by length.
C27_PreferFirstIsIgnored ==
    pc = "done" => CallResult = WithOtherPreference

\* a call returned out of the for loop with two candidates of one length that
\* parse to different values
C27_Witness ==
    /\ ReturnedCandidate
    /\ \E i, j \in DOMAIN candidates :
          /\ i < j
          /\ Len(candidates[i]) = Len(candidates[j])
          /\ Parses(candidates[i]) /\ Parses(candidates[j])
          /\ ValueOf(candidates[i]) # ValueOf(candidates[j])

(***************************************************************************)
(* C28.  A line comment marker inside a string literal.                    *)
(***************************************************************************)
\* {"url": "http://a.com",}
UrlText ==
    <<"{","\"","u","r","l","\"",":"," ","\"","h","t","t","p",":","/","/","a",".","c","o",
      "m","\"",",","}">>

\* {url: "http://a.com"}
UrlObject == JObj(<< <<"u","r","l">> >>, <<JStr(<<"h","t","t","p",":","/","/","a",".","c","o","m">>)>>)

\* the call was made on the text s with options that leave every default
CalledByDefault(s) == response = StringResponse(s) /\ NormalizeOptions(options) = DefaultOptions

NullText == <<"n","u","l","l">>

\* the response is the text null, or a json-labelled fence around it
IsNullText ==
    \/ response = StringResponse(NullText)
    \/ IsFenced(FenceOpenFast, JNull, FenceCloseFast)

\* C29: a null result does not imply that there was no input: parseLLMJson
\* also returns null when a non-empty input parses to the JSON value null,
\* as the text null does and a json-labelled fence whose body is null.
C29_NullIsNotNoInput ==
    (pc = "done" /\ IsNullText) =>
        /\ HasInput
        /\ outcome = "returned"
        /\ result = JNull

\* the fast path returned null for the fence around null
C29_Witness ==
    /\ pc = "done"
    /\ IsFenced(FenceOpenFast, JNull, FenceCloseFast)
    /\ HasInput
    /\ trace = <<"fast">>
    /\ result = JNull

(***************************************************************************)
(* C30.  handleInitiate writes back the list it captured.                  *)
(***************************************************************************)
\* the step is the continuation of the handleInitiate that made call
InitiateCompletes(call) ==
    /\ call.kind = "initiate"
    /\ inflight' = inflight \ {call}

\* the candidates of the latest render that the list captured by call lacks
AddedSince(call) ==
    {hubCandidates[k].id : k \in 1..Len(hubCandidates)} \
        {call.candidates[k].id : k \in 1..Len(call.candidates)}

\* C30: handleInitiate writes back the candidate list it captured before it
\* awaited the agent call: when a candidate was added by handleNewOnboarding,
\* or changed by handleGenerateTasks, while the call was in flight and the
\* call then reports email_sent, the completed handleInitiate replaces the
\* list by the stale one and the interleaved update is lost.
C30_InitiateWritesStaleList ==
    [][\A call \in inflight :
          (InitiateCompletes(call) /\ hubCandidates' # hubCandidates) =>
              /\ hubCandidates' =
                    MapCandidate(call.candidates, call.candidateId, "welcome_sent", 25)
              /\ \A id \in AddedSince(call) : ~HasCandidate(hubCandidates', id)]_vars

\* one call was made, that of handleInitiate; it has returned, the welcome is
\* marked as sent, and a candidate the form added meanwhile is gone
C30_Witness ==
    /\ agentCalls = 1
    /\ inflight = {}
    /\ \E k \in 1..Len(hubCandidates) :
          hubCandidates[k].status = "welcome_sent" /\ hubCandidates[k].progress = 25
    /\ \E id \in onboarded : ~HasCandidate(hubCandidates, id)

====
